---- MODULE Spec2Model ----
(***************************************************************************)
(* Model of scylla-cql/src/frame/value.rs: the value buffer                *)
(* (LegacySerializedValues), the Value encodings it appends, the           *)
(* value-list adapters and the batch traversals built on them.             *)
(*                                                                         *)
(* Bytes are integers 0..255 and byte regions are sequences of bytes.      *)
(* A length that may exceed what the model can materialise (a blob or a    *)
(* name of 64 KiB and more) is kept as `pad` blocks of 65536 bytes that    *)
(* precede the materialised `data`; conversions to i32 / u16 are decided   *)
(* on the full length pad * 65536 + Len(data).                             *)
(***************************************************************************)
EXTENDS Integers, Sequences, FiniteSets, TLC

VARIABLES
    serialized_values,  \* LegacySerializedValues.serialized_values, after the first `bulk` elements
    values_num,         \* LegacySerializedValues.values_num
    contains_names,     \* LegacySerializedValues.contains_names
    bulk,               \* number of elements appended before the modelled calls (4-byte UNSET values,
                        \* each behind an empty name when the buffer is in named mode)
    named_cnt,          \* history: successful add_named_value calls so far
    pos_cnt,            \* history: successful add_value calls so far
    calls,              \* history: number of append calls made
    last,               \* history: the last append call, its arguments, the buffer before it, its result
    source,             \* the batch source: a LegacyBatchValues implementer
    trav,               \* the current traversal, as returned by batch_values_iter
    req,                \* the outgoing message the current traversal writes to
    bcall,              \* history: the last call on the traversal and what it returned
    steps,              \* history: number of calls made on the current traversal
    pure,               \* history: the current traversal was driven without skip_next so far
    ntrav,              \* history: number of traversals obtained from the source
    yielded,            \* history: the k-th item yielded by the first traversal that got that far
                        \* when driven by next_serialized / write_next_to_request alone
    appended,           \* history: the (name, value) pairs of the successful appends, in order
    frame,              \* the bytes of a message: written by write_to_request, read by new_from_frame
    fcall,              \* history: the last call that wrote, read or walked a buffer, and its outcome
    writes,             \* history: number of write_to_request calls made on the buffer
    operands,           \* the inputs a scalar operation is applied to
    outcome             \* the last scalar operation applied to the operands, and what it returned

bufvars == <<serialized_values, values_num, contains_names, bulk, named_cnt, pos_cnt, calls, last,
             appended>>
batchvars == <<source, trav, req, bcall, steps, pure, ntrav, yielded>>
framevars == <<frame, fcall, writes>>
scalarvars == <<operands, outcome>>
vars == <<serialized_values, values_num, contains_names, bulk, named_cnt, pos_cnt, calls, last,
          appended, source, trav, req, bcall, steps, pure, ntrav, yielded, frame, fcall, writes,
          operands, outcome>>

-----------------------------------------------------------------------------
(* Bounds of the model *)

\* number of add_value / add_named_value calls explored on one buffer
MaxCalls == 3
\* number of elements of a batch source
MaxBatch == 3
\* number of calls explored on one traversal
MaxSteps == 4
\* number of traversals obtained from one batch source
MaxTrav == 2
\* number of times the buffer is written to the message
MaxWrites == 1
\* depth of the Option / MaybeUnset / reference / Box wrappers around a value
MaxNest == 2
\* number of bytes of a CqlVarint
MaxDigits == 3
MaxItems == 2
MaxSerialized == 2

(* Program constants *)

\* u16::MAX, the largest element count (value.rs:736, :760)
U16Max == 65535
\* i32::MAX, the largest length or count the length prefix can hold
I32Max == 2147483647

-----------------------------------------------------------------------------
(* Byte helpers: the BufMut big-endian writers *)

Byte(n, k) == (n \div k) % 256

\* BufMut::put_u16
PutU16(n) == <<Byte(n, 256), Byte(n, 1)>>

\* BufMut::put_i32 of a non-negative i32
PutU31(n) == <<Byte(n, 16777216), Byte(n, 65536), Byte(n, 256), Byte(n, 1)>>

\* BufMut::put_i32: two's complement, big-endian
PutI32(n) ==
    IF n >= 0 THEN PutU31(n)
    ELSE LET m == -(n + 1)
         IN  <<255 - Byte(m, 16777216), 255 - Byte(m, 65536), 255 - Byte(m, 256), 255 - Byte(m, 1)>>

\* BufMut::put_i8
PutI8(n) == <<(n + 256) % 256>>

\* BufMut::put_i16
PutI16(n) == PutU16((n + 65536) % 65536)

\* BufMut::put_u32 of the number hi * 2^16 + lo
PutU32(hi, lo) == PutU16(hi) \o PutU16(lo)

\* BufMut::put_i64 of the number hi * 2^32 + mid * 2^16 + lo, hi a signed 32-bit word
PutI64(hi, mid, lo) == PutI32(hi) \o PutU16(mid) \o PutU16(lo)

\* Vec::resize(len, 0) / truncation of a byte region to its first n entries
Truncate(buf, n) == SubSeq(buf, 1, n)

\* buf[pos .. pos + 4].copy_from_slice(four), pos counted from 0
Patch4(buf, pos, four) ==
    [i \in 1..Len(buf) |-> IF i > pos /\ i <= pos + 4 THEN four[i - pos] ELSE buf[i]]

\* A byte region is a sequence whose entries are bytes 0..255; an entry -k stands
\* for a run of k payload bytes that is not materialised.
Run(k) == IF k = 0 THEN <<>> ELSE <<-k>>

\* a + b, or -1 when either is -1 or the sum exceeds i32::MAX
SatAdd(a, b) == IF a < 0 \/ b < 0 THEN -1 ELSE IF a > I32Max - b THEN -1 ELSE a + b

\* the number of bytes of the region from entry i on, or -1 when it exceeds i32::MAX
RECURSIVE SizeFrom(_, _)
SizeFrom(buf, i) ==
    IF i > Len(buf) THEN 0
    ELSE SatAdd(IF buf[i] < 0 THEN -buf[i] ELSE 1, SizeFrom(buf, i + 1))

\* usize -> i32 conversion of the length pad + len: `len.try_into()` succeeds
FitsI32(pad, len) == pad <= I32Max - len

-----------------------------------------------------------------------------
(* CqlVarint: a varint is its digits, the big-endian two's-complement bytes *)

\* digits.iter().position(|b| *b != 0), counted from 0; Len(digits) when there is none
RECURSIVE NonZeroPosition(_, _)
NonZeroPosition(digits, i) ==
    IF i > Len(digits) THEN Len(digits)
    ELSE IF digits[i] # 0 THEN i - 1
    ELSE NonZeroPosition(digits, i + 1)

\* as_normalized_slice removing every leading zero
AsNormalizedSlice_StripAll(digits) ==
    IF digits = <<>> THEN <<0>>
    ELSE LET non_zero_position == NonZeroPosition(digits, 1)
         IN  IF non_zero_position = Len(digits) THEN <<0>>
             ELSE SubSeq(digits, non_zero_position + 1, Len(digits))

\* CqlVarint::as_normalized_slice
AsNormalizedSlice(digits) ==
    IF digits = <<>> THEN <<0>>
    ELSE LET non_zero_position == NonZeroPosition(digits, 1)
         IN  IF non_zero_position = Len(digits) THEN <<0>>
             ELSE IF non_zero_position > 0
             THEN LET zeros_to_remove == IF digits[non_zero_position + 1] > 127
                                         THEN non_zero_position - 1
                                         ELSE non_zero_position
                  IN  SubSeq(digits, zeros_to_remove + 1, Len(digits))
             ELSE digits

\* PartialEq for CqlVarint
VarintEq(a, b) == AsNormalizedSlice(a) = AsNormalizedSlice(b)

\* Hash for CqlVarint: the bytes fed to the hasher
VarintHash(a) == AsNormalizedSlice(a)

-----------------------------------------------------------------------------
(* Values: the implementers of the Value capability the model draws from.        *)
(* A value is a record: n holds a number of at most 32 bits, data the bytes or   *)
(* 16-bit halves of what is wider, pad the bytes (or elements) not materialised, *)
(* elems the values it wraps or contains.                                        *)

Val(kind, n, pad, data, elems) ==
    [kind |-> kind, n |-> n, pad |-> pad, data |-> data, elems |-> elems]

VTinyInt(x)     == Val("i8", x, 0, <<>>, <<>>)
VSmallInt(x)    == Val("i16", x, 0, <<>>, <<>>)
VInt(x)         == Val("i32", x, 0, <<>>, <<>>)
\* the i64 hi * 2^32 + mid * 2^16 + lo
VBigInt(hi, mid, lo) == Val("i64", hi, 0, <<mid, lo>>, <<>>)
VCounter(v)     == Val("counter", 0, 0, <<>>, <<v>>)
\* CqlDate(hi * 2^16 + lo)
VDate(hi, lo)   == Val("date", 0, 0, <<hi, lo>>, <<>>)
VTimestamp(hi, mid, lo) == Val("timestamp", hi, 0, <<mid, lo>>, <<>>)
VTime(hi, mid, lo) == Val("time", hi, 0, <<mid, lo>>, <<>>)
VBool(b)        == Val("bool", IF b THEN 1 ELSE 0, 0, <<>>, <<>>)
\* a byte slice or string of pad + Len(d) bytes
VBlob(p, d)     == Val("blob", 0, p, d, <<>>)
VUuid(d)        == Val("uuid", 0, 0, d, <<>>)
VInet(d)        == Val("inet", 0, 0, d, <<>>)
\* CqlVarint over pad + Len(d) bytes
VVarint(p, d)   == Val("varint", 0, p, d, <<>>)
\* CqlDecimal: varint bytes and scale
VDecimal(p, d, scale) == Val("decimal", scale, p, d, <<>>)
\* Option<T>
VNull           == Val("null", 0, 0, <<>>, <<>>)
VSome(v)        == Val("some", 0, 0, <<>>, <<v>>)
VUnset          == Val("unset", 0, 0, <<>>, <<>>)
\* MaybeUnset<V>
VMaybeUnset     == Val("maybe_unset", 0, 0, <<>>, <<>>)
VSet(v)         == Val("set", 0, 0, <<>>, <<v>>)
VRef(v)         == Val("ref", 0, 0, <<>>, <<v>>)
VBox(v)         == Val("box", 0, 0, <<>>, <<v>>)
\* Vec<T> / slice / set of the elements es
VList(es)       == Val("list", 0, 0, <<>>, es)
\* a list of pad + Len(es) elements; pad > 0 only where the count does not fit an i32
VListN(p, es)   == Val("list", 0, p, <<>>, es)
\* a map of pad + Len(kvs) \div 2 entries, kvs = <<key, value, key, value, ...>>
VMap(p, kvs)    == Val("map", 0, p, <<>>, kvs)
VTuple(es)      == Val("tuple", 0, 0, <<>>, es)
\* CqlValue::Empty
VEmpty          == Val("empty", 0, 0, <<>>, <<>>)
\* f32 and f64 by their IEEE bits: hi * 2^16 + lo, and hi * 2^32 + mid * 2^16 + lo
\* with hi a signed 32-bit word
VFloat(hi, lo)  == Val("f32", 0, 0, <<hi, lo>>, <<>>)
VDouble(hi, mid, lo) == Val("f64", hi, 0, <<mid, lo>>, <<>>)
VTimeuuid(d)    == Val("timeuuid", 0, 0, d, <<>>)
VDuration(months, days, nanoseconds) == Val("duration", 0, 0, <<months, days, nanoseconds>>, <<>>)
\* CqlValue: a variant holding one concrete value (Int(i), Text(s), Date(d), ...),
\* List / Set of CqlValue, Map of <<key, value, ...>>, Tuple of Option<CqlValue>,
\* UserDefinedType of fields (names: one byte each, values: Option<CqlValue>)
VCqlScalar(v)   == Val("cql_scalar", 0, 0, <<>>, <<v>>)
VCqlList(es)    == Val("cql_list", 0, 0, <<>>, es)
VCqlSet(es)     == Val("cql_set", 0, 0, <<>>, es)
VCqlMap(kvs)    == Val("cql_map", 0, 0, <<>>, kvs)
VCqlTuple(es)   == Val("cql_tuple", 0, 0, <<>>, es)
VCqlUdt(names, es) == Val("cql_udt", 0, 0, names, es)

\* a byte slice of 2^31 bytes: its length does not fit an i32
HugeBlob == VBlob(I32Max, <<0>>)

Written(buf) == [ok |-> TRUE, buf |-> buf]
ValueTooBig(buf) == [ok |-> FALSE, buf |-> buf]

RECURSIVE Serialize(_, _)
RECURSIVE SerializeElems(_, _, _)

\* the `for value in elements_iter { serialize(value, buf)?; }` loop from element i on
SerializeElems(elems, i, buf) ==
    IF i > Len(elems) THEN Written(buf)
    ELSE LET Rest(r) == IF r.ok THEN SerializeElems(elems, i + 1, r.buf) ELSE r
         IN  Rest(Serialize(elems[i], buf))

\* a back-patch that counts the bytes from the start of the buffer
BackPatch_FromStart(r, bytes_num_pos) ==
    IF ~r.ok THEN r
    ELSE LET written_bytes == SizeFrom(r.buf, 5)
         IN  IF written_bytes < 0 THEN ValueTooBig(r.buf)
             ELSE Written(Patch4(r.buf, bytes_num_pos, PutI32(written_bytes)))

\* the back-patch that ends a composite: the bytes written after the placeholder,
\* converted to i32, overwrite the placeholder
BackPatch(r, bytes_num_pos) ==
    IF ~r.ok THEN r
    ELSE LET written_bytes == SizeFrom(r.buf, bytes_num_pos + 5)
         IN  IF written_bytes < 0 THEN ValueTooBig(r.buf)
             ELSE Written(Patch4(r.buf, bytes_num_pos, PutI32(written_bytes)))

\* serialize_list_or_set whose byte length counts the placeholder too
SerializeListOrSet_LenCountsItself(elems, element_count, buf) ==
    LET bytes_num_pos == Len(buf)
        Patch(r) ==
            IF ~r.ok THEN r
            ELSE LET written_bytes == SizeFrom(r.buf, bytes_num_pos + 1)
                 IN  IF written_bytes < 0 THEN ValueTooBig(r.buf)
                     ELSE Written(Patch4(r.buf, bytes_num_pos, PutI32(written_bytes)))
    IN  IF element_count < 0 THEN ValueTooBig(buf \o PutI32(0))
        ELSE Patch(SerializeElems(elems, 1, buf \o PutI32(0) \o PutI32(element_count)))

\* serialize_list_or_set: placeholder, count, elements, back-patched byte length;
\* element_count is -1 when the count does not fit an i32
SerializeListOrSet(elems, element_count, buf) ==
    LET bytes_num_pos == Len(buf)
    IN  IF element_count < 0 THEN ValueTooBig(buf \o PutI32(0))
        ELSE BackPatch(SerializeElems(elems, 1, buf \o PutI32(0) \o PutI32(element_count)),
                       bytes_num_pos)

\* serialize_map: as for lists, over the keys and values in turn
SerializeMap(kvs, kv_count, buf) ==
    LET bytes_num_pos == Len(buf)
    IN  IF kv_count < 0 THEN ValueTooBig(buf \o PutI32(0))
        ELSE BackPatch(SerializeElems(kvs, 1, buf \o PutI32(0) \o PutI32(kv_count)),
                       bytes_num_pos)

\* serialize_tuple writing an element count like a list
SerializeTuple_Counted(elems, buf) ==
    BackPatch(SerializeElems(elems, 1, buf \o PutI32(0) \o PutI32(Len(elems))), Len(buf))

\* serialize_tuple and the tuple impls: placeholder, elements, back-patched byte length
SerializeTuple(elems, buf) ==
    BackPatch(SerializeElems(elems, 1, buf \o PutI32(0)), Len(buf))

\* impl Value for &[u8], &str, Vec<u8>, String, [u8; N]
SerializeBytes(val, buf) ==
    IF FitsI32(val.pad, Len(val.data))
    THEN Written(buf \o PutI32(val.pad + Len(val.data)) \o Run(val.pad) \o val.data)
    ELSE ValueTooBig(buf)

\* impl Value for CqlVarint writing the normalized bytes
SerializeCqlVarint_Normalized(val, buf) ==
    IF FitsI32(val.pad, Len(val.data))
    THEN LET serialized == IF val.pad = 0 THEN AsNormalizedSlice(val.data) ELSE val.data
         IN  Written(buf \o PutI32(val.pad + Len(serialized)) \o Run(val.pad) \o serialized)
    ELSE ValueTooBig(buf)

\* impl Value for CqlVarint: the raw bytes behind their length
SerializeCqlVarint(val, buf) ==
    IF FitsI32(val.pad, Len(val.data))
    THEN Written(buf \o PutI32(val.pad + Len(val.data)) \o Run(val.pad) \o val.data)
    ELSE ValueTooBig(buf)

\* impl Value for CqlDecimal testing the bytes against i32::MAX: the length wraps
SerializeCqlDecimal_Wraps(val, buf) ==
    IF ~FitsI32(val.pad, Len(val.data)) THEN ValueTooBig(buf)
    ELSE LET len == val.pad + Len(val.data)
             serialized_len == IF len > I32Max - 4 THEN (len - I32Max - 1) + 4 - I32Max - 1
                               ELSE len + 4
         IN  Written(buf \o PutI32(serialized_len) \o PutI32(val.n) \o Run(val.pad) \o val.data)

\* impl Value for CqlDecimal: length of the bytes + 4, the scale, the bytes
SerializeCqlDecimal(val, buf) ==
    IF ~FitsI32(val.pad, Len(val.data) + 4) THEN ValueTooBig(buf)
    ELSE LET serialized_len == val.pad + Len(val.data) + 4
         IN  Written(buf \o PutI32(serialized_len) \o PutI32(val.n) \o Run(val.pad) \o val.data)

\* impl Value for Option<T> whose None writes the UNSET length
SerializeOption_NoneAsUnset(val, buf) ==
    IF val.kind = "some" THEN Serialize(val.elems[1], buf) ELSE Written(buf \o PutI32(-2))

\* impl Value for Option<T>
SerializeOption(val, buf) ==
    IF val.kind = "some" THEN Serialize(val.elems[1], buf) ELSE Written(buf \o PutI32(-1))

\* impl Value for Unset
SerializeUnset(buf) == Written(buf \o PutI32(-2))

\* impl Value for MaybeUnset<V>
SerializeMaybeUnset(val, buf) ==
    IF val.kind = "set" THEN Serialize(val.elems[1], buf) ELSE SerializeUnset(buf)

\* types::vint_encode for -8192 <= v < 8192: the zig-zag of v in one byte below 128,
\* else in two bytes, the first with its top bit set
VintEncode(v, buf) ==
    LET z == IF v >= 0 THEN 2 * v ELSE -2 * v - 1
    IN  IF z < 128 THEN buf \o <<z>> ELSE buf \o <<128 + (z \div 256), z % 256>>

\* impl Value for CqlDuration: placeholder, three vints, back-patched byte length
SerializeCqlDuration(val, buf) ==
    BackPatch(Written(VintEncode(val.data[3],
                          VintEncode(val.data[2],
                              VintEncode(val.data[1], buf \o PutI32(0))))),
              Len(buf))

\* serialize_empty
SerializeEmpty(buf) == Written(buf \o PutI32(0))

\* impl Value for CqlValue writing a user-defined type like a list, with a count
SerializeCqlValue_UdtCounted(val, buf) ==
    CASE val.kind = "cql_map" -> SerializeMap(val.elems, Len(val.elems) \div 2, buf)
      [] val.kind = "cql_tuple" -> SerializeTuple(val.elems, buf)
      [] val.kind = "cql_udt" -> SerializeListOrSet(val.elems, Len(val.elems), buf)
      [] val.kind \in {"cql_list", "cql_set"} ->
            SerializeListOrSet(val.elems, Len(val.elems), buf)
      [] val.kind = "cql_scalar" -> Serialize(val.elems[1], buf)
      [] val.kind = "empty" -> SerializeEmpty(buf)

\* impl Value for CqlValue (CqlValue::Vector is todo!() and is not modelled)
SerializeCqlValue(val, buf) ==
    CASE val.kind = "cql_map" -> SerializeMap(val.elems, Len(val.elems) \div 2, buf)
      [] val.kind = "cql_tuple" -> SerializeTuple(val.elems, buf)
      [] val.kind = "cql_udt" -> SerializeTuple(val.elems, buf)
      [] val.kind \in {"cql_list", "cql_set"} ->
            SerializeListOrSet(val.elems, Len(val.elems), buf)
      [] val.kind = "cql_scalar" -> Serialize(val.elems[1], buf)
      [] val.kind = "empty" -> SerializeEmpty(buf)

\* Value::serialize(&self, buf): the buffer after the call and whether it succeeded;
\* on ValueTooBig whatever was written before the failure stays in buf
Serialize(val, buf) ==
    CASE val.kind = "i8"        -> Written(buf \o PutI32(1) \o PutI8(val.n))
      [] val.kind = "i16"       -> Written(buf \o PutI32(2) \o PutI16(val.n))
      [] val.kind = "i32"       -> Written(buf \o PutI32(4) \o PutI32(val.n))
      [] val.kind \in {"i64", "timestamp", "time", "f64"} ->
            Written(buf \o PutI32(8) \o PutI64(val.n, val.data[1], val.data[2]))
      [] val.kind = "counter"   -> Serialize(val.elems[1], buf)
      [] val.kind = "date"      -> Written(buf \o PutI32(4) \o PutU32(val.data[1], val.data[2]))
      [] val.kind = "bool"      -> Written(buf \o PutI32(1) \o (IF val.n = 1 THEN <<1>> ELSE <<0>>))
      [] val.kind = "blob"      -> SerializeBytes(val, buf)
      [] val.kind = "uuid"      -> Written(buf \o PutI32(16) \o val.data)
      [] val.kind = "inet"      -> Written(buf \o PutI32(Len(val.data)) \o val.data)
      [] val.kind = "varint"    -> SerializeCqlVarint(val, buf)
      [] val.kind = "decimal"   -> SerializeCqlDecimal(val, buf)
      [] val.kind \in {"null", "some"} -> SerializeOption(val, buf)
      [] val.kind = "unset"     -> SerializeUnset(buf)
      [] val.kind \in {"maybe_unset", "set"} -> SerializeMaybeUnset(val, buf)
      [] val.kind \in {"ref", "box"} -> Serialize(val.elems[1], buf)
      [] val.kind = "list"      ->
            SerializeListOrSet(val.elems, SatAdd(val.pad, Len(val.elems)), buf)
      [] val.kind = "map"       ->
            SerializeMap(val.elems, SatAdd(val.pad, Len(val.elems) \div 2), buf)
      [] val.kind = "tuple"     -> SerializeTuple(val.elems, buf)
      [] val.kind = "f32"       -> Written(buf \o PutI32(4) \o PutU32(val.data[1], val.data[2]))
      [] val.kind = "timeuuid"  -> Serialize(VUuid(val.data), buf)
      [] val.kind = "duration"  -> SerializeCqlDuration(val, buf)
      [] val.kind \in {"cql_scalar", "cql_list", "cql_set", "cql_map", "cql_tuple", "cql_udt",
                       "empty"} -> SerializeCqlValue(val, buf)

\* the values the calls are made with
Values ==
    { VInt(-1), VNull, VUnset, VBlob(0, <<7>>), HugeBlob,
      VList(<<VInt(1)>>), VList(<<VInt(1), HugeBlob>>) }

\* whether serialize succeeds on the value
Encodable(val) == Serialize(val, <<>>).ok

-----------------------------------------------------------------------------
(* Names *)

\* a name of pad + Len(d) bytes
Name(p, d) == [pad |-> p, data |-> d]

\* "" , "a" and a name of 65536 bytes
Names == { Name(0, <<>>), Name(0, <<97>>), Name(U16Max + 1, <<>>) }

\* types::write_string: u16 length then the bytes; fails, writing nothing, when the
\* length does not fit the short
WriteString(name, buf) ==
    IF name.pad = 0 /\ Len(name.data) <= U16Max
    THEN [ok |-> TRUE, buf |-> buf \o PutU16(Len(name.data)) \o name.data]
    ELSE [ok |-> FALSE, buf |-> buf]

-----------------------------------------------------------------------------
(* LegacySerializedValues *)

SV(bytes, num, names) ==
    [serialized_values |-> bytes, values_num |-> num, contains_names |-> names]

\* LegacySerializedValues::new
New == SV(<<>>, 0, FALSE)

\* add_value without the named-mode check
AddValue_NoMixCheck(sv, val) ==
    IF sv.values_num = U16Max THEN [res |-> "TooManyValues", sv |-> sv]
    ELSE LET Done(r) ==
                 IF ~r.ok
                 THEN [res |-> "ValueTooBig",
                       sv |-> [sv EXCEPT !.serialized_values =
                                    Truncate(r.buf, Len(sv.serialized_values))]]
                 ELSE [res |-> "Ok",
                       sv |-> [sv EXCEPT !.serialized_values = r.buf,
                                         !.values_num = sv.values_num + 1]]
         IN  Done(Serialize(val, sv.serialized_values))

\* add_value without the capacity check: the u16 count wraps
AddValue_NoLimit(sv, val) ==
    IF sv.contains_names THEN [res |-> "MixingNamedAndNotNamedValues", sv |-> sv]
    ELSE LET Done(r) ==
                 IF ~r.ok
                 THEN [res |-> "ValueTooBig",
                       sv |-> [sv EXCEPT !.serialized_values =
                                    Truncate(r.buf, Len(sv.serialized_values))]]
                 ELSE [res |-> "Ok",
                       sv |-> [sv EXCEPT !.serialized_values = r.buf,
                                         !.values_num = (sv.values_num + 1) % (U16Max + 1)]]
         IN  Done(Serialize(val, sv.serialized_values))

\* LegacySerializedValues::add_value
AddValue(sv, val) ==
    IF sv.contains_names THEN [res |-> "MixingNamedAndNotNamedValues", sv |-> sv]
    ELSE IF sv.values_num = U16Max THEN [res |-> "TooManyValues", sv |-> sv]
    ELSE LET len_before_serialize == Len(sv.serialized_values)
             Done(r) ==
                 IF ~r.ok
                 THEN [res |-> "ValueTooBig",
                       sv |-> [sv EXCEPT !.serialized_values =
                                    Truncate(r.buf, len_before_serialize)]]
                 ELSE [res |-> "Ok",
                       sv |-> [sv EXCEPT !.serialized_values = r.buf,
                                         !.values_num = sv.values_num + 1]]
         IN  Done(Serialize(val, sv.serialized_values))

\* add_named_value taking the rollback length after the name was written
AddNamedValue_LenAfterName(sv, name, val) ==
    IF sv.values_num > 0 /\ ~sv.contains_names
    THEN [res |-> "MixingNamedAndNotNamedValues", sv |-> sv]
    ELSE LET named == [sv EXCEPT !.contains_names = TRUE]
         IN  IF named.values_num = U16Max THEN [res |-> "TooManyValues", sv |-> named]
             ELSE LET w == WriteString(name, named.serialized_values)
                      len_before_serialize == Len(w.buf)
                      Done(r) ==
                          IF ~r.ok
                          THEN [res |-> "ValueTooBig",
                                sv |-> [named EXCEPT !.serialized_values =
                                            Truncate(r.buf, len_before_serialize)]]
                          ELSE [res |-> "Ok",
                                sv |-> [named EXCEPT !.serialized_values = r.buf,
                                                     !.values_num = named.values_num + 1]]
                  IN  IF ~w.ok THEN [res |-> "ParseError", sv |-> named]
                      ELSE Done(Serialize(val, w.buf))

\* LegacySerializedValues::add_named_value
AddNamedValue(sv, name, val) ==
    IF sv.values_num > 0 /\ ~sv.contains_names
    THEN [res |-> "MixingNamedAndNotNamedValues", sv |-> sv]
    ELSE LET named == [sv EXCEPT !.contains_names = TRUE]
         IN  IF named.values_num = U16Max THEN [res |-> "TooManyValues", sv |-> named]
             ELSE LET len_before_serialize == Len(named.serialized_values)
                      w == WriteString(name, named.serialized_values)
                      Done(r) ==
                          IF ~r.ok
                          THEN [res |-> "ValueTooBig",
                                sv |-> [named EXCEPT !.serialized_values =
                                            Truncate(r.buf, len_before_serialize)]]
                          ELSE [res |-> "Ok",
                                sv |-> [named EXCEPT !.serialized_values = r.buf,
                                                     !.values_num = named.values_num + 1]]
                  IN  IF ~w.ok THEN [res |-> "ParseError", sv |-> named]
                      ELSE Done(Serialize(val, w.buf))

\* LegacySerializedValues::len
SVLen(sv) == sv.values_num

\* LegacySerializedValues::has_names
HasNames(sv) == sv.contains_names

\* write_to_request putting the count after the bytes
SVWriteToRequest_CountLast(sv, buf) == buf \o sv.serialized_values \o PutU16(sv.values_num)

\* LegacySerializedValues::write_to_request: u16 count, then the bytes verbatim
SVWriteToRequest(sv, buf) == buf \o PutU16(sv.values_num) \o sv.serialized_values

\* the buffer held in the state variables
Cur == SV(serialized_values, values_num, contains_names)

-----------------------------------------------------------------------------
(* The value-buffer specification: append calls on one buffer *)

NoCall == [op |-> "none", name |-> Name(0, <<>>), val |-> VNull, pre |-> New,
           pre_named |-> 0, pre_pos |-> 0, res |-> "none"]

\* the buffer after construction, or after `bulk` earlier appends of UNSET values
\* (positional, or named with the empty name) that bring it next to its capacity
BufInit ==
    /\ bulk \in {0, U16Max - 1}
    /\ contains_names \in (IF bulk = 0 THEN {FALSE} ELSE BOOLEAN)
    /\ serialized_values = <<>>
    /\ values_num = bulk
    /\ named_cnt = (IF contains_names THEN bulk ELSE 0)
    /\ pos_cnt = (IF contains_names THEN 0 ELSE bulk)
    /\ calls = 0
    /\ last = NoCall
    /\ appended = <<>>

BatchIdle ==
    /\ source = <<>>
    /\ trav = <<>>
    /\ req = <<>>
    /\ bcall = <<>>
    /\ steps = 0
    /\ pure = TRUE
    /\ ntrav = 0
    /\ yielded = <<>>

\* no frame-level call is on record; an append makes the last one stale
NoFCall == [op |-> "none", flag |-> FALSE, res |-> "none", sv |-> New, parsed |-> FALSE,
            rest |-> <<>>, self |-> New, items |-> <<>>, panic |-> FALSE]

FrameIdle ==
    /\ frame = <<>>
    /\ fcall = NoFCall
    /\ writes = 0

ScalarIdle ==
    /\ operands = <<>>
    /\ outcome = <<>>

Init == BufInit /\ BatchIdle /\ FrameIdle /\ ScalarIdle

Commit(op, name, val, r) ==
    /\ serialized_values' = r.sv.serialized_values
    /\ values_num' = r.sv.values_num
    /\ contains_names' = r.sv.contains_names
    /\ named_cnt' = (IF op = "add_named_value" /\ r.res = "Ok" THEN named_cnt + 1 ELSE named_cnt)
    /\ pos_cnt' = (IF op = "add_value" /\ r.res = "Ok" THEN pos_cnt + 1 ELSE pos_cnt)
    /\ calls' = calls + 1
    /\ last' = [op |-> op, name |-> name, val |-> val, pre |-> Cur,
                pre_named |-> named_cnt, pre_pos |-> pos_cnt, res |-> r.res]
    /\ appended' = (IF r.res = "Ok" THEN Append(appended, [name |-> name, val |-> val])
                    ELSE appended)
    /\ fcall' = NoFCall
    /\ UNCHANGED <<bulk, batchvars, frame, writes, scalarvars>>

\* appends stop once the buffer was handed over for transmission
AddValueCall ==
    /\ calls < MaxCalls /\ writes = 0
    /\ \E val \in Values : Commit("add_value", Name(0, <<>>), val, AddValue(Cur, val))

AddNamedValueCall ==
    /\ calls < MaxCalls /\ writes = 0
    /\ \E name \in Names, val \in Values :
          Commit("add_named_value", name, val, AddNamedValue(Cur, name, val))

Next == AddValueCall \/ AddNamedValueCall

Spec == Init /\ [][Next]_vars

-----------------------------------------------------------------------------
(* Claims about the value buffer, checked under Spec *)

Mixing == "MixingNamedAndNotNamedValues"
Called == last.op # "none"
Failed == Called /\ last.res # "Ok"

\* whether the name of the last call can be written as a short string
NameWritable == last.op = "add_named_value" => WriteString(last.name, <<>>).ok

\* C1: a buffer never holds both named and positional elements: after a named
\* element was added every add_value fails with the mixing error, and after a
\* positional element was added every add_named_value fails with it.
C1_NoMixing ==
    /\ ~(named_cnt > 0 /\ pos_cnt > 0)
    /\ (last.op = "add_value" /\ last.pre_named > 0) => last.res = Mixing
    /\ (last.op = "add_named_value" /\ last.pre_pos > 0) => last.res = Mixing

\* a positional append was rejected on a buffer whose named element was added by a
\* modelled call, and a named append on one whose positional element was
C1_Witness ==
    /\ bulk = 0
    /\ last.res = Mixing
    /\ \/ last.op = "add_value" /\ last.pre_named > 0
       \/ last.op = "add_named_value" /\ last.pre_pos > 0

\* C2: any failed append leaves the buffer (bytes, count, named flag) as it was
\* before the call, so an append accepted before the failed call is accepted after it.
C2_FailedAppendRestoresBuffer ==
    Failed =>
        /\ Cur = last.pre
        /\ \A val \in Values : AddValue(last.pre, val).res = "Ok" => AddValue(Cur, val).res = "Ok"

\* C3: when the inner serialize fails the call returns ValueTooBig, the byte region
\* is cut back to its length before the call (the name of a named append included),
\* the earlier bytes are unchanged and the count is not incremented.
C3_ValueTooBigRollsBack ==
    /\ (Called /\ last.res \notin {Mixing, "TooManyValues", "ParseError"} /\ ~Encodable(last.val))
          => last.res = "ValueTooBig"
    /\ last.res = "ValueTooBig" =>
          /\ ~Encodable(last.val)
          /\ serialized_values = last.pre.serialized_values
          /\ values_num = last.pre.values_num

\* a named append of a list that fails after writing part of itself, onto a buffer
\* that already holds bytes
C3_Witness ==
    /\ last.op = "add_named_value"
    /\ last.res = "ValueTooBig"
    /\ last.val = VList(<<VInt(1), HugeBlob>>)
    /\ last.name = Name(0, <<97>>)
    /\ Len(last.pre.serialized_values) > 0

\* C4 as stated: the count never exceeds 65535 and equals the number of successful
\* appends, every append of an encodable value to a buffer of fewer than 65535
\* elements succeeds, and every append to a buffer of 65535 elements fails with
\* TooManyValues leaving the count at 65535.
C4_AsStated ==
    /\ values_num <= U16Max
    /\ values_num = named_cnt + pos_cnt
    /\ (Called /\ last.pre.values_num < U16Max /\ Encodable(last.val) /\ NameWritable)
          => last.res = "Ok"
    /\ (Called /\ last.pre.values_num = U16Max)
          => last.res = "TooManyValues" /\ values_num = U16Max

\* whether the last call is one the mode checks of the code reject
MixesModes ==
    \/ last.op = "add_value" /\ last.pre.contains_names
    \/ last.op = "add_named_value" /\ last.pre.values_num > 0 /\ ~last.pre.contains_names

\* C4 amended: the count never exceeds 65535, never wraps and equals the number of
\* successful appends; an append of an encodable value with a writable name to a
\* buffer of fewer than 65535 elements succeeds unless it is rejected as mixing;
\* an append to a buffer of 65535 elements fails with the mixing error when it
\* mixes modes and with TooManyValues otherwise, and leaves the count at 65535.
C4_CountBounded ==
    /\ values_num <= U16Max
    /\ values_num = named_cnt + pos_cnt
    /\ (Called /\ last.pre.values_num < U16Max /\ Encodable(last.val) /\ NameWritable
           /\ last.res # Mixing)
          => last.res = "Ok" /\ values_num = last.pre.values_num + 1
    /\ (Called /\ last.pre.values_num = U16Max)
          => /\ values_num = U16Max
             /\ last.res = (IF MixesModes THEN Mixing ELSE "TooManyValues")

\* the 65535th element was added by a modelled call and the next append was refused
C4_Witness ==
    /\ calls >= 2
    /\ last.pre.values_num = U16Max
    /\ last.res = "TooManyValues"
    /\ values_num = U16Max

-----------------------------------------------------------------------------
(* Value lists: the ValueList capability *)

RECURSIVE SerializedFrom(_, _, _)

\* the `for val in self { result.add_value(val)?; }` loop from value i on
SerializedFrom(vl, i, result) ==
    IF i > Len(vl) THEN [res |-> "Ok", sv |-> result]
    ELSE LET Rest(r) == IF r.res # "Ok" THEN [res |-> r.res, sv |-> New]
                        ELSE SerializedFrom(vl, i + 1, r.sv)
         IN  Rest(AddValue(result, vl[i]))

\* ValueList::serialized for a slice / Vec / tuple of values: Ok(buffer) or Err(res)
Serialized(vl) == SerializedFrom(vl, 1, New)

\* write_to_request that writes the count before it serializes the values
VLWriteToRequest_CountFirst(vl, buf) ==
    LET Write(serialized) ==
            IF serialized.res # "Ok"
            THEN [res |-> serialized.res, buf |-> buf \o PutU16(Len(vl))]
            ELSE [res |-> "Ok", buf |-> SVWriteToRequest(serialized.sv, buf)]
    IN  Write(Serialized(vl))

\* ValueList::write_to_request: `self.serialized()?` and then the buffer's wire form
VLWriteToRequest(vl, buf) ==
    LET Write(serialized) ==
            IF serialized.res # "Ok" THEN [res |-> serialized.res, buf |-> buf]
            ELSE [res |-> "Ok", buf |-> SVWriteToRequest(serialized.sv, buf)]
    IN  Write(Serialized(vl))

\* a value list of one value, one of two values, and one whose second value is too big
VLA == <<VInt(1)>>
VLB == <<VUnset, VBlob(0, <<7>>)>>
VLF == <<VInt(1), HugeBlob>>
ValueLists == {VLA, VLB, VLF}

-----------------------------------------------------------------------------
(* Batch traversals: the LegacyBatchValuesIterator capability *)

\* what a call returns: None, or Some of a result (with the buffer when it is Ok(buffer))
RetNone == [some |-> FALSE, res |-> "none", sv |-> New]
RetSome(res, sv) == [some |-> TRUE, res |-> res, sv |-> sv]
RetUnit == RetSome("Ok", New)

\* LegacyBatchValuesIteratorFromIterator::next_serialized: self.it.next().map(|vl| vl.serialized())
FromIterNextSerialized(it) ==
    IF it.idx < Len(it.batch)
    THEN LET Map(r) == [ret |-> RetSome(r.res, r.sv), it |-> [it EXCEPT !.idx = it.idx + 1]]
         IN  Map(Serialized(it.batch[it.idx + 1]))
    ELSE [ret |-> RetNone, it |-> it]

\* LegacyBatchValuesIteratorFromIterator::write_next_to_request
FromIterWriteNextToRequest(it, buf) ==
    IF it.idx < Len(it.batch)
    THEN LET Map(r) == [ret |-> RetSome(r.res, New), it |-> [it EXCEPT !.idx = it.idx + 1],
                        buf |-> r.buf]
         IN  Map(VLWriteToRequest(it.batch[it.idx + 1], buf))
    ELSE [ret |-> RetNone, it |-> it, buf |-> buf]

\* LegacyBatchValuesIteratorFromIterator::skip_next: self.it.next().map(|_| ())
FromIterSkipNext(it) ==
    IF it.idx < Len(it.batch)
    THEN [ret |-> RetUnit, it |-> [it EXCEPT !.idx = it.idx + 1]]
    ELSE [ret |-> RetNone, it |-> it]

\* $TupleSize of the tuple the traversal borrows
TupleSize(it) == Len(it.batch)

\* TupleValuesIter::next_serialized: match self.idx { i => self.tuple.i.serialized(), _ => None }
TupleNextSerialized(it) ==
    IF it.idx \in 0..(TupleSize(it) - 1)
    THEN LET Advance(serialized_value_res) ==
                 [ret |-> RetSome(serialized_value_res.res, serialized_value_res.sv),
                  it |-> [it EXCEPT !.idx = it.idx + 1]]
         IN  Advance(Serialized(it.batch[it.idx + 1]))
    ELSE [ret |-> RetNone, it |-> it]

\* TupleValuesIter::write_next_to_request
TupleWriteNextToRequest(it, buf) ==
    IF it.idx \in 0..(TupleSize(it) - 1)
    THEN LET Map(r) == [ret |-> RetSome(r.res, New), it |-> [it EXCEPT !.idx = it.idx + 1],
                        buf |-> r.buf]
         IN  Map(VLWriteToRequest(it.batch[it.idx + 1], buf))
    ELSE [ret |-> RetNone, it |-> it, buf |-> buf]

\* TupleValuesIter::skip_next
TupleSkipNext(it) ==
    IF it.idx < TupleSize(it)
    THEN [ret |-> RetUnit, it |-> [it EXCEPT !.idx = it.idx + 1]]
    ELSE [ret |-> RetNone, it |-> it]

\* the underlying traversal IT of the decorator, by its concrete type
RestNextSerialized(it) ==
    IF it.kind = "tuple" THEN TupleNextSerialized(it) ELSE FromIterNextSerialized(it)
RestWriteNextToRequest(it, buf) ==
    IF it.kind = "tuple" THEN TupleWriteNextToRequest(it, buf)
    ELSE FromIterWriteNextToRequest(it, buf)
RestSkipNext(it) ==
    IF it.kind = "tuple" THEN TupleSkipNext(it) ELSE FromIterSkipNext(it)

\* Option<&LegacySerializedValues>
NoFirst == [some |-> FALSE, sv |-> New]
SomeFirst(sv) == [some |-> TRUE, sv |-> sv]

\* next_serialized of the decorator without the skip of the underlying first element
FirstNextSerialized_NoSkip(t) ==
    IF t.first.some
    THEN [ret |-> RetSome("Ok", t.first.sv), t |-> [t EXCEPT !.first = NoFirst]]
    ELSE LET Lift(r) == [ret |-> r.ret, t |-> [t EXCEPT !.rest = r.it]]
         IN  Lift(RestNextSerialized(t.rest))

\* LegacyBatchValuesFirstSerialized::next_serialized
FirstNextSerialized(t) ==
    IF t.first.some
    THEN [ret |-> RetSome("Ok", t.first.sv),
          t |-> [t EXCEPT !.first = NoFirst, !.rest = RestSkipNext(t.rest).it]]
    ELSE LET Lift(r) == [ret |-> r.ret, t |-> [t EXCEPT !.rest = r.it]]
         IN  Lift(RestNextSerialized(t.rest))

\* LegacyBatchValuesFirstSerialized::write_next_to_request
FirstWriteNextToRequest(t, buf) ==
    IF t.first.some
    THEN [ret |-> RetUnit,
          t |-> [t EXCEPT !.first = NoFirst, !.rest = RestSkipNext(t.rest).it],
          buf |-> SVWriteToRequest(t.first.sv, buf)]
    ELSE LET Lift(r) == [ret |-> r.ret, t |-> [t EXCEPT !.rest = r.it], buf |-> r.buf]
         IN  Lift(RestWriteNextToRequest(t.rest, buf))

\* LegacyBatchValuesFirstSerialized::skip_next:
\* `self.rest.skip_next(); self.first.take().map(|_| ())`
FirstSkipNext(t) ==
    LET s == RestSkipNext(t.rest)
    IN  [ret |-> IF t.first.some THEN RetUnit ELSE RetNone,
         t |-> [t EXCEPT !.first = NoFirst, !.rest = s.it]]

\* the three operations on a traversal, decorated or not
NextSerialized(t) ==
    IF t.wrapped THEN FirstNextSerialized(t)
    ELSE LET Lift(r) == [ret |-> r.ret, t |-> [t EXCEPT !.rest = r.it]]
         IN  Lift(RestNextSerialized(t.rest))
WriteNextToRequest(t, buf) ==
    IF t.wrapped THEN FirstWriteNextToRequest(t, buf)
    ELSE LET Lift(r) == [ret |-> r.ret, t |-> [t EXCEPT !.rest = r.it], buf |-> r.buf]
         IN  Lift(RestWriteNextToRequest(t.rest, buf))
SkipNext(t) ==
    IF t.wrapped THEN FirstSkipNext(t)
    ELSE LET r == RestSkipNext(t.rest) IN [ret |-> r.ret, t |-> [t EXCEPT !.rest = r.it]]

RECURSIVE CountFrom(_, _)

\* the `while self.skip_next().is_some() { count += 1; }` loop
CountFrom(t, count) ==
    LET s == SkipNext(t)
    IN  IF s.ret.some THEN CountFrom(s.t, count + 1) ELSE [cnt |-> count, t |-> s.t]

\* LegacyBatchValuesIterator::count
Count(t) == CountFrom(t, 0)

-----------------------------------------------------------------------------
(* Batch sources: the LegacyBatchValues capability *)

\* batch_values_iter that moves the precomputed first buffer out of the source
BatchValuesIter_TakesFirst(src) ==
    [src |-> [src EXCEPT !.first = NoFirst],
     trav |-> [wrapped |-> src.wrapped, first |-> src.first,
               rest |-> [src.it EXCEPT !.idx = 0], moved |-> FALSE]]

\* LegacyBatchValues::batch_values_iter(&self): the traversal, and the source after the
\* call.  FromIter clones its iterator, slices and Vecs take a new slice iterator, tuples
\* start a TupleValuesIter at idx 0, the decorator copies `first` and asks `rest`.
BatchValuesIter(src) ==
    [src |-> src,
     trav |-> [wrapped |-> src.wrapped,
               first |-> src.first,
               rest |-> IF src.it.kind = "tuple" THEN [src.it EXCEPT !.idx = 0] ELSE src.it,
               moved |-> FALSE]]

\* the precomputed first buffer handed to LegacyBatchValuesFirstSerialized::new
FirstBuf == Serialized(<<VInt(7)>>).sv

Batches == UNION {[1..n -> ValueLists] : n \in 0..MaxBatch}

\* iterator-backed sources (LegacyBatchValuesFromIter, slices, Vecs, 1-tuples) over any
\* batch, tuple sources over two elements and more, each bare or inside
\* LegacyBatchValuesFirstSerialized::new(batch_values, already_serialized_first)
Sources ==
    { [wrapped |-> w, first |-> f, it |-> [kind |-> k, batch |-> b, idx |-> 0]] :
        w \in BOOLEAN, f \in {NoFirst, SomeFirst(FirstBuf)}, k \in {"iter", "tuple"},
        b \in Batches }

WellFormedSource(src) ==
    /\ src.first.some => src.wrapped
    /\ src.it.kind = "tuple" => Len(src.it.batch) >= 2

-----------------------------------------------------------------------------
(* The batch specification: traversals of one batch source *)

NoTrav == [wrapped |-> FALSE, first |-> NoFirst,
           rest |-> [kind |-> "iter", batch |-> <<>>, idx |-> 0], moved |-> TRUE]

NoBCall == [op |-> "none", ret |-> RetNone, wrote |-> <<>>, pre |-> NoTrav, cnt |-> 0]

BufIdle ==
    /\ serialized_values = <<>>
    /\ values_num = 0
    /\ contains_names = FALSE
    /\ bulk = 0
    /\ named_cnt = 0
    /\ pos_cnt = 0
    /\ calls = 0
    /\ last = NoCall
    /\ appended = <<>>

BatchInit ==
    /\ source \in {src \in Sources : WellFormedSource(src)}
    /\ trav = NoTrav
    /\ req = <<>>
    /\ bcall = NoBCall
    /\ steps = 0
    /\ pure = TRUE
    /\ ntrav = 0
    /\ yielded = <<>>

InitBatch == BufIdle /\ BatchInit /\ FrameIdle /\ ScalarIdle

\* the bytes a call appended to the outgoing message
Wrote(before, after) == SubSeq(after, Len(before) + 1, Len(after))

\* what a call yielded: nothing, an error, or an element in its wire form
Item(ret, wire) == [some |-> ret.some, res |-> ret.res, wire |-> wire]

Record(item) ==
    yielded' = (IF pure /\ Len(yielded) = steps THEN Append(yielded, item) ELSE yielded)

\* the caller starts an outgoing message and obtains a traversal from the source
BatchValuesIterCall ==
    /\ ntrav < MaxTrav
    /\ LET r == BatchValuesIter(source)
       IN  /\ source' = r.src
           /\ trav' = r.trav
    /\ req' = <<>>
    /\ bcall' = NoBCall
    /\ steps' = 0
    /\ pure' = TRUE
    /\ ntrav' = ntrav + 1
    /\ UNCHANGED <<yielded, bufvars, framevars, scalarvars>>

NextSerializedCall ==
    /\ ~trav.moved /\ steps < MaxSteps
    /\ LET Effect(r) ==
               /\ trav' = r.t
               /\ bcall' = [op |-> "next_serialized", ret |-> r.ret, wrote |-> <<>>,
                            pre |-> trav, cnt |-> 0]
               /\ Record(Item(r.ret, IF r.ret.some /\ r.ret.res = "Ok"
                                     THEN SVWriteToRequest(r.ret.sv, <<>>) ELSE <<>>))
       IN  Effect(NextSerialized(trav))
    /\ steps' = steps + 1
    /\ UNCHANGED <<source, req, pure, ntrav, bufvars, framevars, scalarvars>>

WriteNextToRequestCall ==
    /\ ~trav.moved /\ steps < MaxSteps
    /\ LET Effect(r) ==
               /\ trav' = r.t
               /\ req' = r.buf
               /\ bcall' = [op |-> "write_next_to_request", ret |-> r.ret,
                            wrote |-> Wrote(req, r.buf), pre |-> trav, cnt |-> 0]
               /\ Record(Item(r.ret, Wrote(req, r.buf)))
       IN  Effect(WriteNextToRequest(trav, req))
    /\ steps' = steps + 1
    /\ UNCHANGED <<source, pure, ntrav, bufvars, framevars, scalarvars>>

SkipNextCall ==
    /\ ~trav.moved /\ steps < MaxSteps
    /\ LET r == SkipNext(trav)
       IN  /\ trav' = r.t
           /\ bcall' = [op |-> "skip_next", ret |-> r.ret, wrote |-> <<>>,
                        pre |-> trav, cnt |-> 0]
    /\ steps' = steps + 1
    /\ pure' = FALSE
    /\ UNCHANGED <<source, req, ntrav, yielded, bufvars, framevars, scalarvars>>

\* count(mut self) consumes the traversal
CountCall ==
    /\ ~trav.moved /\ steps < MaxSteps
    /\ LET r == Count(trav)
       IN  /\ trav' = [r.t EXCEPT !.moved = TRUE]
           /\ bcall' = [op |-> "count", ret |-> RetNone, wrote |-> <<>>,
                        pre |-> trav, cnt |-> r.cnt]
    /\ steps' = steps + 1
    /\ pure' = FALSE
    /\ UNCHANGED <<source, req, ntrav, yielded, bufvars, framevars, scalarvars>>

NextBatch ==
    \/ BatchValuesIterCall
    \/ NextSerializedCall
    \/ WriteNextToRequestCall
    \/ SkipNextCall
    \/ CountCall

SpecBatch == InitBatch /\ [][NextBatch]_vars

-----------------------------------------------------------------------------
(* Claims about batch traversals, checked under SpecBatch *)

\* the underlying batch and its number of elements
Batch == source.it.batch
N == Len(Batch)

Pulled == bcall.op \in {"next_serialized", "write_next_to_request"}
Stepped == Pulled \/ bcall.op = "skip_next"

\* a precomputed first buffer stands for element 0 of the batch, so the batch has one
Sized == source.first.some => N >= 1

\* what a pull of the value list vl returns and writes, by the operation
PullOf(op, vl) ==
    LET Pull(r) ==
            IF op = "next_serialized"
            THEN [ret |-> RetSome(r.res, r.sv), wrote |-> <<>>]
            ELSE [ret |-> RetSome(r.res, New),
                  wrote |-> IF r.res = "Ok" THEN SVWriteToRequest(r.sv, <<>>) ELSE <<>>]
    IN  Pull(Serialized(vl))

\* what a pull of the precomputed buffer returns and writes
PullOfFirst(op, sv) ==
    IF op = "next_serialized"
    THEN [ret |-> RetSome("Ok", sv), wrote |-> <<>>]
    ELSE [ret |-> RetUnit, wrote |-> SVWriteToRequest(sv, <<>>)]

\* C5: for every implementer and any interleaving of next_serialized,
\* write_next_to_request and skip_next over a batch of n elements, a call that
\* returns Some consumes exactly one element, the first n calls return Some, and a
\* call returns None only when all n elements have been consumed.
C5_PullProtocol ==
    (Stepped /\ Sized) =>
        /\ bcall.ret.some => trav.rest.idx = bcall.pre.rest.idx + 1
        /\ steps <= N => bcall.ret.some
        /\ ~bcall.ret.some => bcall.pre.rest.idx >= N

\* C6: count() on a fresh traversal returns the number of elements of the batch,
\* for every implementer, with or without a precomputed first buffer.
C6_CountIsBatchSize ==
    (bcall.op = "count" /\ steps = 1 /\ Sized) => bcall.cnt = N

\* C7: with a precomputed first buffer, a traversal driven by next_serialized /
\* write_next_to_request yields that buffer at position 0, discards the underlying
\* first element with one skip, and then yields the underlying elements 1..n-1 in order.
C7_FirstSubstituted ==
    (source.wrapped /\ source.first.some /\ pure /\ Pulled) =>
        IF steps = 1
        THEN /\ bcall.ret = PullOfFirst(bcall.op, source.first.sv).ret
             /\ bcall.wrote = PullOfFirst(bcall.op, source.first.sv).wrote
             /\ ~trav.first.some
             /\ trav.rest.idx = (IF N >= 1 THEN 1 ELSE 0)
        ELSE IF steps <= N
        THEN /\ bcall.ret = PullOf(bcall.op, Batch[steps]).ret
             /\ bcall.wrote = PullOf(bcall.op, Batch[steps]).wrote
             /\ trav.rest.idx = steps
        ELSE ~bcall.ret.some

\* the third pull of a decorated traversal of three elements wrote the third element
C7_Witness ==
    /\ source.wrapped /\ source.first.some /\ pure
    /\ N = 3 /\ steps = 3
    /\ Batch[1] # Batch[3] /\ Batch[2] # Batch[3]
    /\ bcall.op = "write_next_to_request"
    /\ bcall.ret.some /\ bcall.ret.res = "Ok"
    /\ bcall.wrote = SVWriteToRequest(Serialized(Batch[3]).sv, <<>>)

\* a traversal with a precomputed first buffer, driven by next_serialized and
\* write_next_to_request only, after one of these calls
FirstDriven == source.wrapped /\ source.first.some /\ pure /\ Pulled

\* C29 as stated: with a precomputed first buffer and an underlying batch of n
\* elements, the pulls up to the first None yield n items, for every n >= 0.
C29_AsStated ==
    FirstDriven => (bcall.ret.some <=> steps <= N)

\* C29 (amended): with a precomputed first buffer and an underlying batch of n
\* elements, the pulls up to the first None yield n items for every n >= 1, and one
\* item, the precomputed buffer, for n = 0.
C29_YieldsBatchSize ==
    FirstDriven => (bcall.ret.some <=> steps <= (IF N >= 1 THEN N ELSE 1))

\* the third pull of a decorated traversal of two elements returned None
C29_Witness ==
    /\ FirstDriven
    /\ N = 2 /\ steps = 3
    /\ ~bcall.ret.some
    /\ trav.rest.idx = 2

\* C8: without a precomputed buffer the decorator behaves like the underlying
\* traversal: each call returns what the same call on the underlying traversal
\* returns and advances it by the same amount.
C8_NoFirstIsTransparent ==
    (source.wrapped /\ ~source.first.some /\ Stepped) =>
        LET u == CASE bcall.op = "next_serialized" ->
                        RestNextSerialized(bcall.pre.rest)
                   [] bcall.op = "write_next_to_request" ->
                        [ret |-> RestWriteNextToRequest(bcall.pre.rest, <<>>).ret,
                         it  |-> RestWriteNextToRequest(bcall.pre.rest, <<>>).it]
                   [] bcall.op = "skip_next" -> RestSkipNext(bcall.pre.rest)
        IN  /\ bcall.ret = u.ret
            /\ trav.rest = u.it

\* C9: every traversal obtained from the source starts at element 0 and, driven by
\* next_serialized / write_next_to_request, yields at each position what the earlier
\* traversals yielded there, however far those were advanced.
C9_TraversalsRestart ==
    /\ (ntrav > 0 /\ steps = 0) => (trav.rest.idx = 0 /\ ~trav.moved)
    /\ (pure /\ Pulled) =>
          /\ Len(yielded) >= steps
          /\ yielded[steps] =
                Item(bcall.ret,
                     IF bcall.op = "write_next_to_request" THEN bcall.wrote
                     ELSE IF bcall.ret.some /\ bcall.ret.res = "Ok"
                          THEN SVWriteToRequest(bcall.ret.sv, <<>>) ELSE <<>>)

\* a second traversal of a decorated source yielded its second element, after the
\* first traversal had gone further
C9_Witness ==
    /\ ntrav = 2 /\ pure /\ Pulled
    /\ source.first.some
    /\ steps = 2 /\ Len(yielded) > 2
    /\ bcall.ret.some

\* C10: a failing element affects only itself: the pull returns Some(Err), writes
\* nothing to the outgoing message and advances by one; every pull yields the element
\* at its position whatever happened to the elements before it.
C10_FailureIsLocal ==
    Pulled =>
        /\ (bcall.ret.some /\ bcall.ret.res # "Ok") =>
              /\ bcall.wrote = <<>>
              /\ trav.rest.idx = bcall.pre.rest.idx + 1
        /\ (~bcall.pre.first.some /\ bcall.pre.rest.idx < N) =>
              /\ bcall.ret = PullOf(bcall.op, Batch[bcall.pre.rest.idx + 1]).ret
              /\ bcall.wrote = PullOf(bcall.op, Batch[bcall.pre.rest.idx + 1]).wrote
              /\ trav.rest.idx = bcall.pre.rest.idx + 1

\* the first element failed with ValueTooBig and wrote nothing; the second was then
\* written to the message as usual
C10_Witness ==
    /\ ~source.wrapped /\ pure /\ steps = 2 /\ N >= 2
    /\ Batch[1] = VLF /\ Batch[2] = VLB
    /\ yielded[1] = [some |-> TRUE, res |-> "ValueTooBig", wire |-> <<>>]
    /\ bcall.op = "write_next_to_request"
    /\ bcall.ret = RetUnit
    /\ req = SVWriteToRequest(Serialized(VLB).sv, <<>>)

-----------------------------------------------------------------------------
(* The frame readers new_from_frame and the iterators call (frame/types.rs).     *)
(* Each takes the unread bytes and returns whether it succeeded, what it read    *)
(* and the bytes left unread.                                                    *)

GetU16(b) == b[1] * 256 + b[2]

\* i32::from_be_bytes
GetI32(b) ==
    IF b[1] < 128 THEN b[1] * 16777216 + b[2] * 65536 + b[3] * 256 + b[4]
    ELSE -((255 - b[1]) * 16777216 + (255 - b[2]) * 65536 + (255 - b[3]) * 256 + (255 - b[4])) - 1

ReadFail(buf) == [ok |-> FALSE, v |-> <<>>, buf |-> buf]

\* types::read_short
ReadShort(buf) ==
    IF Len(buf) < 2 THEN ReadFail(buf)
    ELSE [ok |-> TRUE, v |-> GetU16(buf), buf |-> SubSeq(buf, 3, Len(buf))]

\* types::read_int
ReadInt(buf) ==
    IF Len(buf) < 4 THEN ReadFail(buf)
    ELSE [ok |-> TRUE, v |-> GetI32(buf), buf |-> SubSeq(buf, 5, Len(buf))]

\* types::read_raw_bytes
ReadRawBytes(count, buf) ==
    IF Len(buf) < count THEN ReadFail(buf)
    ELSE [ok |-> TRUE, v |-> SubSeq(buf, 1, count), buf |-> SubSeq(buf, count + 1, Len(buf))]

\* types::read_short_bytes: a short length and that many bytes
ReadShortBytes(buf) ==
    LET Bytes(len) == IF ~len.ok THEN len ELSE ReadRawBytes(len.v, len.buf)
    IN  Bytes(ReadShort(buf))

Cont(b) == b >= 128 /\ b <= 191

\* std::str::from_utf8 accepts the bytes from position i on
RECURSIVE Utf8From(_, _)
Utf8From(b, i) ==
    IF i > Len(b) THEN TRUE
    ELSE IF b[i] < 128 THEN Utf8From(b, i + 1)
    ELSE IF b[i] >= 194 /\ b[i] <= 223
         THEN i + 1 <= Len(b) /\ Cont(b[i + 1]) /\ Utf8From(b, i + 2)
    ELSE IF b[i] >= 224 /\ b[i] <= 239
         THEN /\ i + 2 <= Len(b)
              /\ Cont(b[i + 1]) /\ Cont(b[i + 2])
              /\ (b[i] = 224 => b[i + 1] >= 160)
              /\ (b[i] = 237 => b[i + 1] <= 159)
              /\ Utf8From(b, i + 3)
    ELSE IF b[i] >= 240 /\ b[i] <= 244
         THEN /\ i + 3 <= Len(b)
              /\ Cont(b[i + 1]) /\ Cont(b[i + 2]) /\ Cont(b[i + 3])
              /\ (b[i] = 240 => b[i + 1] >= 144)
              /\ (b[i] = 244 => b[i + 1] <= 143)
              /\ Utf8From(b, i + 4)
    ELSE FALSE

\* types::read_string: a short length, that many bytes, which must be UTF-8
ReadString(buf) ==
    LET Text(raw) == IF raw.ok /\ ~Utf8From(raw.v, 1) THEN ReadFail(raw.buf) ELSE raw
    IN  Text(ReadShortBytes(buf))

\* types::read_bytes_opt: an int length; any negative length is "no bytes"
ReadBytesOpt(buf) ==
    LET Bytes(len) ==
            IF ~len.ok THEN len
            ELSE IF len.v < 0 THEN [ok |-> TRUE, v |-> <<>>, buf |-> len.buf]
            ELSE ReadRawBytes(len.v, len.buf)
    IN  Bytes(ReadInt(buf))

RawNull == [kind |-> "Null", bytes |-> <<>>]
RawUnset == [kind |-> "Unset", bytes |-> <<>>]
RawValue(bytes) == [kind |-> "Value", bytes |-> bytes]

\* types::read_value: length -2 is Unset, -1 is Null, a non-negative length is a value
\* of that many bytes, any other length is an error
ReadValue(buf) ==
    LET Payload(raw) == IF raw.ok THEN [raw EXCEPT !.v = RawValue(raw.v)] ELSE raw
        Value(len) ==
            IF ~len.ok THEN len
            ELSE IF len.v = -2 THEN [ok |-> TRUE, v |-> RawUnset, buf |-> len.buf]
            ELSE IF len.v = -1 THEN [ok |-> TRUE, v |-> RawNull, buf |-> len.buf]
            ELSE IF len.v >= 0 THEN Payload(ReadRawBytes(len.v, len.buf))
            ELSE ReadFail(len.buf)
    IN  Value(ReadInt(buf))

-----------------------------------------------------------------------------
(* LegacySerializedValues: reconstruction from a frame and iteration *)

\* the `for _ in 0..values_num` loop of new_from_frame with `left` rounds to go
RECURSIVE SkipPairs(_, _, _)
SkipPairs(buf, left, names) ==
    IF left = 0 THEN [ok |-> TRUE, v |-> <<>>, buf |-> buf]
    ELSE LET Value(name) ==
                 IF ~name.ok THEN name
                 ELSE LET Rest(serialized) ==
                              IF ~serialized.ok THEN serialized
                              ELSE SkipPairs(serialized.buf, left - 1, names)
                      IN  Rest(ReadBytesOpt(name.buf))
         IN  Value(IF names THEN ReadString(buf) ELSE [ok |-> TRUE, v |-> <<>>, buf |-> buf])

\* new_from_frame keeping the count bytes in the accumulated region
NewFromFrame_KeepsCount(buf, names) ==
    LET Pairs(count) ==
            IF ~count.ok THEN [res |-> "ParseError", sv |-> New, buf |-> <<>>]
            ELSE LET values_beg == buf
                     Slice(after) ==
                         IF ~after.ok THEN [res |-> "ParseError", sv |-> New, buf |-> <<>>]
                         ELSE LET values_len_in_buf == Len(values_beg) - Len(after.buf)
                              IN  [res |-> "Ok",
                                   sv |-> SV(SubSeq(values_beg, 1, values_len_in_buf),
                                             count.v, names),
                                   buf |-> after.buf]
                 IN  Slice(SkipPairs(count.buf, count.v, names))
    IN  Pairs(ReadShort(buf))

\* LegacySerializedValues::new_from_frame(buf, contains_names): the result, the buffer
\* built and the bytes left unread (not modelled after a failure)
NewFromFrame(buf, names) ==
    LET Pairs(count) ==
            IF ~count.ok THEN [res |-> "ParseError", sv |-> New, buf |-> <<>>]
            ELSE LET values_beg == count.buf
                     Slice(after) ==
                         IF ~after.ok THEN [res |-> "ParseError", sv |-> New, buf |-> <<>>]
                         ELSE LET values_len_in_buf == Len(values_beg) - Len(after.buf)
                              IN  [res |-> "Ok",
                                   sv |-> SV(SubSeq(values_beg, 1, values_len_in_buf),
                                             count.v, names),
                                   buf |-> after.buf]
                 IN  Slice(SkipPairs(values_beg, count.v, names))
    IN  Pairs(ReadShort(buf))

NoName == [some |-> FALSE, bytes |-> <<>>]
SomeName(bytes) == [some |-> TRUE, bytes |-> bytes]

Walked(items) == [panic |-> FALSE, items |-> items]
Panicked(items) == [panic |-> TRUE, items |-> items]

\* iter_name_value_pairs, collected: `left` more rounds of the mapped range, each
\* unwrapping read_string (in named mode) and read_value
RECURSIVE NameValuePairsFrom(_, _, _, _)
NameValuePairsFrom(buf, left, names, items) ==
    IF left = 0 THEN Walked(items)
    ELSE LET Value(name) ==
                 IF ~name.ok THEN Panicked(items)
                 ELSE LET Rest(serialized) ==
                              IF ~serialized.ok THEN Panicked(items)
                              ELSE NameValuePairsFrom(serialized.buf, left - 1, names,
                                       Append(items, [name |-> IF names
                                                               THEN SomeName(name.v) ELSE NoName,
                                                      value |-> serialized.v]))
                      IN  Rest(ReadValue(name.buf))
         IN  Value(IF names THEN ReadString(buf) ELSE [ok |-> TRUE, v |-> <<>>, buf |-> buf])

\* LegacySerializedValues::iter_name_value_pairs
IterNameValuePairs(sv) ==
    NameValuePairsFrom(sv.serialized_values, sv.values_num, sv.contains_names, <<>>)

\* LegacySerializedValuesIterator::next until it returns None, collected
RECURSIVE IteratorFrom(_, _, _)
IteratorFrom(bytes, names, items) ==
    IF bytes = <<>> THEN Walked(items)
    ELSE LET Value(name) ==
                 IF ~name.ok THEN Panicked(items)
                 ELSE LET Rest(value) ==
                              IF ~value.ok THEN Panicked(items)
                              ELSE IteratorFrom(value.buf, names, Append(items, value.v))
                      IN  Rest(ReadValue(name.buf))
         IN  Value(IF names THEN ReadShortBytes(bytes)
                   ELSE [ok |-> TRUE, v |-> <<>>, buf |-> bytes])

\* LegacySerializedValues::iter
Iter(sv) == IteratorFrom(sv.serialized_values, sv.contains_names, <<>>)

-----------------------------------------------------------------------------
(* The frame specification: a buffer is built by appends, written to a message,  *)
(* reconstructed from message bytes and walked.                                  *)

\* message bytes that did not come from write_to_request
Inputs ==
    { <<>>,
      <<0, 0>>,
      <<0, 1, 255, 255, 255, 255>>,
      <<0, 1, 255, 255, 255, 253>>,
      <<0, 1, 128, 0, 0, 0>>,
      <<0, 1, 0, 0, 0, 1, 7, 9>>,
      <<0, 1, 0, 0, 0, 2, 7>>,
      <<0, 1, 0, 1, 97, 255, 255, 255, 254>>,
      <<0, 1, 0, 1, 255, 255, 255, 255, 255>>,
      <<0, 1, 0, 2, 195, 169, 0, 0, 0, 1, 5>>,
      <<0, 2, 0, 0, 0, 0, 255, 255, 255, 254>>,
      <<0>> }

\* a new buffer and an empty message
InitFrame ==
    /\ BufIdle /\ BatchIdle /\ ScalarIdle
    /\ frame = <<>>
    /\ fcall = NoFCall
    /\ writes = 0

\* received message bytes and no buffer yet
InitParse ==
    /\ BufIdle /\ BatchIdle /\ ScalarIdle
    /\ frame \in Inputs
    /\ fcall = NoFCall
    /\ writes = 0

\* self.write_to_request(&mut frame)
WriteToRequestCall ==
    /\ writes < MaxWrites
    /\ frame' = SVWriteToRequest(Cur, frame)
    /\ fcall' = [fcall EXCEPT !.op = "write_to_request", !.self = Cur,
                              !.items = <<>>, !.panic = FALSE]
    /\ writes' = writes + 1
    /\ UNCHANGED <<bufvars, batchvars, scalarvars>>

\* LegacySerializedValues::new_from_frame(&mut &frame[..], names)
NewFromFrameCall ==
    /\ \E names \in BOOLEAN :
          LET Built(r) ==
                  fcall' = [op |-> "new_from_frame", flag |-> names, res |-> r.res, sv |-> r.sv,
                            parsed |-> r.res = "Ok", rest |-> r.buf, self |-> New,
                            items |-> <<>>, panic |-> FALSE]
          IN  Built(NewFromFrame(frame, names))
    /\ UNCHANGED <<frame, writes, bufvars, batchvars, scalarvars>>

\* the buffers at hand: the one built by appends and the one last reconstructed
Buffers == {Cur} \cup (IF fcall.parsed THEN {fcall.sv} ELSE {})

\* sv.iter().collect()
IterCall ==
    /\ \E sv \in Buffers :
          LET Walk(r) == fcall' = [fcall EXCEPT !.op = "iter", !.self = sv,
                                                !.items = r.items, !.panic = r.panic]
          IN  Walk(Iter(sv))
    /\ UNCHANGED <<frame, writes, bufvars, batchvars, scalarvars>>

\* sv.iter_name_value_pairs().collect()
IterNameValuePairsCall ==
    /\ \E sv \in Buffers :
          LET Walk(r) == fcall' = [fcall EXCEPT !.op = "iter_name_value_pairs", !.self = sv,
                                                !.items = r.items, !.panic = r.panic]
          IN  Walk(IterNameValuePairs(sv))
    /\ UNCHANGED <<frame, writes, bufvars, batchvars, scalarvars>>

NextFrame ==
    \/ AddValueCall
    \/ AddNamedValueCall
    \/ WriteToRequestCall
    \/ NewFromFrameCall
    \/ IterCall
    \/ IterNameValuePairsCall

SpecFrame == InitFrame /\ [][NextFrame]_vars

NextParse ==
    \/ NewFromFrameCall
    \/ IterCall
    \/ IterNameValuePairsCall

SpecParse == InitParse /\ [][NextParse]_vars

-----------------------------------------------------------------------------
(* Claims about the wire form of the buffer, checked under SpecFrame / SpecParse *)

\* the raw value an encoded value reads back as
RawOf(val) ==
    LET enc == Serialize(val, <<>>).buf
    IN  IF SubSeq(enc, 1, 4) = <<255, 255, 255, 255>> THEN RawNull
        ELSE IF SubSeq(enc, 1, 4) = <<255, 255, 255, 254>> THEN RawUnset
        ELSE RawValue(SubSeq(enc, 5, Len(enc)))

\* the (name, value) pairs the appended elements stand for
PairsOf(elems, names) ==
    [i \in 1..Len(elems) |->
        [name |-> IF names THEN SomeName(elems[i].name.data) ELSE NoName,
         value |-> RawOf(elems[i].val)]]

\* the message starts with the wire form of the current buffer
StartsWithCur ==
    LET w == SVWriteToRequest(Cur, <<>>)
    IN  writes > 0 /\ Len(frame) >= Len(w) /\ SubSeq(frame, 1, Len(w)) = w

\* C11: when a buffer built by appends is written with write_to_request and the
\* written bytes are read back by new_from_frame with contains_names = has_names(),
\* the reconstruction succeeds, the reconstructed buffer has the same bytes, count
\* and flag, its iter_name_value_pairs sequence is the original's (the appended
\* pairs, in order), and the reader stops exactly at the end of what was written.
C11_RoundTrip ==
    (fcall.op = "new_from_frame" /\ fcall.flag = HasNames(Cur) /\ StartsWithCur) =>
        LET w == SVWriteToRequest(Cur, <<>>)
        IN  /\ fcall.res = "Ok"
            /\ fcall.sv = Cur
            /\ fcall.rest = SubSeq(frame, Len(w) + 1, Len(frame))
            /\ IterNameValuePairs(fcall.sv) = IterNameValuePairs(Cur)
            /\ IterNameValuePairs(fcall.sv) = Walked(PairsOf(appended, HasNames(Cur)))

\* a buffer of two named values went through the round trip
C11_Witness ==
    /\ fcall.op = "new_from_frame" /\ fcall.flag = HasNames(Cur) /\ StartsWithCur
    /\ contains_names /\ values_num >= 2
    /\ fcall.res = "Ok"

\* C12: walking a successfully constructed buffer - new, built by appends, or
\* reconstructed by a successful new_from_frame from any bytes - with iter() or
\* iter_name_value_pairs() yields exactly len() items and never hits the
\* unwrap / "badly encoded value" failure.
C12_WellFormedContents ==
    fcall.op \in {"iter", "iter_name_value_pairs"} =>
        ~fcall.panic /\ Len(fcall.items) = SVLen(fcall.self)

\* the elements from the i-th on, each as an optional short-string name followed by
\* a length-prefixed value
RECURSIVE WireFrom(_, _, _)
WireFrom(elems, i, names) ==
    IF i > Len(elems) THEN <<>>
    ELSE (IF names THEN WriteString(elems[i].name, <<>>).buf ELSE <<>>)
         \o Serialize(elems[i].val, <<>>).buf
         \o WireFrom(elems, i + 1, names)

\* C13: write_to_request appends to the message exactly the 2-byte big-endian
\* count len(), then the accumulated bytes, which are the appended elements in
\* order, each a length-prefixed value preceded by its short-string name iff the
\* buffer is in named mode; the buffer itself is left as it was.
C13_WireForm ==
    [][writes' = writes + 1 =>
          /\ frame' = frame \o PutU16(SVLen(Cur)) \o WireFrom(appended, 1, HasNames(Cur))
          /\ Len(appended) = SVLen(Cur)
          /\ Cur' = Cur]_vars

\* a buffer holding two named values was written to the message
C13_Witness ==
    /\ fcall.op = "write_to_request"
    /\ contains_names /\ values_num >= 2
    /\ Len(frame) > 2


\* where `left` entries starting after the first pos bytes of b end, each an
\* optional short-string name and a value of length -2, -1 or L >= 0 with its L
\* bytes; -1 when b is too short for them or an entry is malformed
RECURSIVE EntriesEnd(_, _, _, _)
EntriesEnd(b, pos, left, names) ==
    IF left = 0 THEN pos
    ELSE LET name_len == IF pos + 2 <= Len(b) THEN b[pos + 1] * 256 + b[pos + 2] ELSE 0
             value_at ==
                 IF ~names THEN pos
                 ELSE IF pos + 2 > Len(b) \/ pos + 2 + name_len > Len(b) THEN -1
                 ELSE IF ~Utf8From(SubSeq(b, pos + 3, pos + 2 + name_len), 1) THEN -1
                 ELSE pos + 2 + name_len
             ValueEnd(len) ==
                 IF len < -2 THEN -1
                 ELSE IF len < 0 THEN EntriesEnd(b, value_at + 4, left - 1, names)
                 ELSE IF value_at + 4 + len > Len(b) THEN -1
                 ELSE EntriesEnd(b, value_at + 4 + len, left - 1, names)
         IN  IF value_at = -1 \/ value_at + 4 > Len(b) THEN -1
             ELSE ValueEnd(GetI32(SubSeq(b, value_at + 1, value_at + 4)))

\* C25: new_from_frame reads the 2-byte count and exactly that many entries; on
\* success the buffer holds the count, the flag and, byte for byte, the input
\* between the count and the end of the last entry, and the cursor stands there,
\* the bytes behind untouched; truncated or malformed input gives ParseError,
\* and there is no panic.
C25_ReconstructionExact ==
    fcall.op = "new_from_frame" =>
        LET end == IF Len(frame) < 2 THEN -1
                   ELSE EntriesEnd(frame, 2, GetU16(frame), fcall.flag)
        IN  /\ ~fcall.panic
            /\ IF end = -1 THEN fcall.res = "ParseError"
               ELSE /\ fcall.res = "Ok"
                    /\ fcall.sv.serialized_values = SubSeq(frame, 3, end)
                    /\ SVLen(fcall.sv) = GetU16(frame)
                    /\ HasNames(fcall.sv) = fcall.flag
                    /\ fcall.rest = SubSeq(frame, end + 1, Len(frame))

-----------------------------------------------------------------------------
(* The value specification: Value::serialize applied to one value and a buffer *)

UuidBytes == <<85, 14, 132, 0, 226, 155, 65, 212, 167, 22, 68, 102, 85, 68, 0, 0>>

\* values that are not wrappers
Leaves ==
    { VTinyInt(-1), VSmallInt(-2), VInt(-1), VInt(65536),
      VBigInt(-1, 65535, 65534), VBigInt(0, 0, 5), VCounter(VBigInt(0, 0, 5)),
      VCounter(VBigInt(-1, 65535, 65534)),
      VDate(32768, 0), VDate(65535, 65535), VTimestamp(-1, 0, 1), VTime(20116, 37246, 16383),
      VBool(TRUE), VBool(FALSE),
      VBlob(0, <<>>), VBlob(0, <<7>>), VBlob(I32Max - 1, <<1>>), HugeBlob,
      VUuid(UuidBytes), VInet(<<127, 0, 0, 1>>),
      VVarint(0, <<>>), VVarint(0, <<1>>), VVarint(0, <<0, 1>>), VVarint(0, <<0, 128>>),
      VVarint(I32Max, <<0>>),
      VDecimal(0, <<1>>, -3), VDecimal(I32Max - 4, <<>>, 2), VDecimal(I32Max - 3, <<>>, 2),
      VDecimal(I32Max, <<>>, 2),
      VNull, VUnset, VMaybeUnset,
      VList(<<>>), VList(<<VInt(1)>>), VList(<<VNull, VUnset>>), VList(<<VInt(1), HugeBlob>>),
      VList(<<VBlob(I32Max - 8, <<>>)>>), VList(<<VBlob(I32Max - 8, <<1>>)>>),
      VList(<<VBlob(I32Max - 20, <<>>), VBlob(0, <<1, 2, 3, 4, 5, 6, 7, 8, 9>>)>>),
      VListN(I32Max, <<VInt(1)>>),
      VMap(0, <<VInt(1), VNull>>), VMap(I32Max, <<VInt(1), VInt(2)>>),
      VTuple(<<VInt(1), VNull>>), VTuple(<<VBlob(I32Max - 4, <<>>)>>),
      VTuple(<<VBlob(I32Max - 3, <<>>)>>),
      VEmpty }

\* 1.5f32, 1.5f64, a timeuuid, a duration, and CqlValue in each of its variants
Int1 == VCqlScalar(VInt(1))
TextA == VCqlScalar(VBlob(0, <<97>>))
Fields == <<VSome(Int1), VNull, VSome(TextA)>>

CqlScalars ==
    { VFloat(16320, 0), VDouble(1073217536, 0, 0), VTimeuuid(UuidBytes),
      VDuration(1, -2, 100), VDuration(-8192, 0, 8191),
      VDate(32768, 0), VTimestamp(-1, 0, 1), VTime(20116, 37246, 16383),
      VBlob(0, <<97>>), VBlob(0, <<>>), HugeBlob, VBool(TRUE),
      VCounter(VBigInt(0, 0, 5)), VDecimal(0, <<1>>, -3), VInt(-1), VBigInt(-1, 65535, 65534),
      VInet(<<127, 0, 0, 1>>), VSmallInt(-2), VTinyInt(-1), VUuid(UuidBytes),
      VVarint(0, <<0, 1>>) }

CqlValues ==
    {VCqlScalar(v) : v \in CqlScalars}
    \cup { VCqlList(<<>>), VCqlList(<<Int1, VEmpty>>), VCqlSet(<<Int1, VEmpty>>),
           VCqlList(<<VCqlUdt(<<97>>, <<VNull>>), VCqlTuple(Fields)>>),
           VCqlSet(<<VCqlScalar(HugeBlob)>>),
           VCqlMap(<<>>), VCqlMap(<<Int1, TextA, TextA, VCqlList(<<Int1>>)>>),
           VCqlTuple(<<>>), VCqlTuple(Fields), VCqlTuple(<<VSome(VCqlScalar(HugeBlob))>>),
           VCqlUdt(<<>>, <<>>), VCqlUdt(<<97, 98, 99>>, Fields),
           VCqlUdt(<<97>>, <<VSome(VCqlMap(<<Int1, VEmpty>>))>>) }

\* the values of S, bare or behind Some, MaybeUnset::Set, a reference or a Box
Wrap(S) == S \cup {VSome(v) : v \in S} \cup {VSet(v) : v \in S}
             \cup {VRef(v) : v \in S} \cup {VBox(v) : v \in S}

RECURSIVE Nested(_)
Nested(depth) ==
    IF depth = 0 THEN Leaves \cup CqlScalars \cup CqlValues ELSE Wrap(Nested(depth - 1))

\* what is in the buffer before the call
Priors == { <<>>, <<0, 0, 0, 1, 9>> }

NoOutcome == [op |-> "none", ok |-> FALSE, buf |-> <<>>]

InitValue ==
    /\ BufIdle /\ BatchIdle /\ FrameIdle
    /\ operands \in {[val |-> v, buf |-> b] : v \in Nested(MaxNest), b \in Priors}
    /\ outcome = NoOutcome

\* val.serialize(&mut buf)
SerializeCall ==
    /\ LET Ret(r) == outcome' = [op |-> "serialize", ok |-> r.ok, buf |-> r.buf]
       IN  Ret(Serialize(operands.val, operands.buf))
    /\ UNCHANGED <<operands, bufvars, batchvars, framevars>>

NextValue == SerializeCall

SpecValue == InitValue /\ [][NextValue]_vars

-----------------------------------------------------------------------------
(* Claims about Value::serialize, checked under SpecValue *)

Serialized1 == outcome.op = "serialize"

\* what the call appended
Appended == SubSeq(outcome.buf, Len(operands.buf) + 1, Len(outcome.buf))

\* the value behind the Option / MaybeUnset / reference / Box wrappers
RECURSIVE Innermost(_)
Innermost(v) == IF v.kind \in {"some", "set", "ref", "box"} THEN Innermost(v.elems[1]) ELSE v

FixedWidth ==
    {"i8", "i16", "i32", "i64", "date", "timestamp", "time", "bool", "uuid", "f32", "f64",
     "timeuuid"}

\* the payload width of the fixed-width scalars
Width(kind) ==
    CASE kind = "i8" -> 1 [] kind = "i16" -> 2 [] kind = "i32" -> 4 [] kind = "i64" -> 8
      [] kind = "date" -> 4 [] kind = "timestamp" -> 8 [] kind = "time" -> 8
      [] kind = "bool" -> 1 [] kind = "uuid" -> 16
      [] kind = "f32" -> 4 [] kind = "f64" -> 8 [] kind = "timeuuid" -> 16

IsLength(w) == Len(w) >= 4 /\ \A i \in 1..4 : w[i] >= 0

\* C14: a successful serialize leaves what was in the buffer and appends a 4-byte
\* big-endian signed length L and then exactly L payload bytes when L >= 0; a
\* negative L is -1 or -2 and has no payload; a fixed-width scalar writes its width
\* and its big-endian payload (i32 -1 is 00 00 00 04 FF FF FF FF, CqlDate(2^31) has
\* payload 80 00 00 00, a Counter is encoded as its i64).
C14_LengthPrefixed ==
    (Serialized1 /\ outcome.ok) =>
        LET w == Appended
            leaf == Innermost(operands.val)
        IN  /\ SubSeq(outcome.buf, 1, Len(operands.buf)) = operands.buf
            /\ IsLength(w)
            /\ IF GetI32(w) >= 0 THEN SizeFrom(w, 5) = GetI32(w)
               ELSE GetI32(w) \in {-1, -2} /\ Len(w) = 4
            /\ (leaf.kind \in FixedWidth
                   => GetI32(w) = Width(leaf.kind) /\ Len(w) = 4 + Width(leaf.kind))
            /\ (leaf = VInt(-1) => w = <<0, 0, 0, 4, 255, 255, 255, 255>>)
            /\ (leaf = VInt(65536) => w = <<0, 0, 0, 4, 0, 1, 0, 0>>)
            /\ (leaf = VTinyInt(-1) => w = <<0, 0, 0, 1, 255>>)
            /\ (leaf = VSmallInt(-2) => w = <<0, 0, 0, 2, 255, 254>>)
            /\ (leaf = VBigInt(-1, 65535, 65534)
                   => w = <<0, 0, 0, 8, 255, 255, 255, 255, 255, 255, 255, 254>>)
            /\ (leaf = VDate(32768, 0) => w = <<0, 0, 0, 4, 128, 0, 0, 0>>)
            /\ (leaf.kind = "counter" => w = Serialize(leaf.elems[1], <<>>).buf)
            /\ (leaf = VCounter(VBigInt(0, 0, 5)) => w = <<0, 0, 0, 8, 0, 0, 0, 0, 0, 0, 0, 5>>)

\* a list was serialized after earlier contents, and CqlDate(2^31) on its own
C14_Witness ==
    /\ Serialized1 /\ outcome.ok
    /\ operands.buf # <<>>
    /\ operands.val \in {VList(<<VNull, VUnset>>), VDate(32768, 0)}

NullBytes == <<255, 255, 255, 255>>
UnsetBytes == <<255, 255, 255, 254>>

\* C15: behind any nesting of Some / MaybeUnset::Set / reference / Box, None is
\* written as exactly FF FF FF FF, Unset and MaybeUnset::Unset as exactly
\* FF FF FF FE, and any other value exactly as when serialized on its own; so an
\* unset value is never written as NULL, a NULL never as UNSET, and no other value
\* as either.
C15_NullAndUnset ==
    Serialized1 =>
        LET w == Appended
            leaf == Innermost(operands.val)
        IN  /\ (leaf.kind = "null" => outcome.ok /\ w = NullBytes)
            /\ (leaf.kind \in {"unset", "maybe_unset"} => outcome.ok /\ w = UnsetBytes)
            /\ (leaf.kind \notin {"null", "unset", "maybe_unset"} =>
                   /\ outcome.ok = Serialize(leaf, <<>>).ok
                   /\ (outcome.ok => /\ w = Serialize(leaf, <<>>).buf
                                     /\ SubSeq(w, 1, 4) \notin {NullBytes, UnsetBytes}))

\* None, Unset and a plain value were each serialized behind two wrappers
C15_Witness ==
    /\ Serialized1 /\ outcome.ok
    /\ operands.val \in {VSet(VSome(VNull)), VSome(VBox(VMaybeUnset)), VSome(VRef(VUnset)),
                         VBox(VSet(VInt(-1)))}

\* the number of payload bytes the encoding of a value has, from the value alone;
\* -1 when a length or count in it does not fit an i32
RECURSIVE PayloadSize(_)
RECURSIVE PayloadSum(_, _)
PayloadSum(elems, i) ==
    IF i > Len(elems) THEN 0
    ELSE SatAdd(SatAdd(4, IF PayloadSize(elems[i]) = -2 THEN 0 ELSE PayloadSize(elems[i])),
                PayloadSum(elems, i + 1))

\* (-2 stands for "no payload": NULL and UNSET)
PayloadSize(v) ==
    CASE v.kind \in FixedWidth -> Width(v.kind)
      [] v.kind = "inet" -> Len(v.data)
      [] v.kind \in {"blob", "varint"} -> SatAdd(v.pad, Len(v.data))
      [] v.kind = "decimal" -> SatAdd(SatAdd(v.pad, Len(v.data)), 4)
      [] v.kind \in {"null", "unset", "maybe_unset"} -> -2
      [] v.kind \in {"some", "set", "ref", "box", "counter"} -> PayloadSize(v.elems[1])
      [] v.kind = "list" ->
            IF SatAdd(v.pad, Len(v.elems)) < 0 THEN -1 ELSE SatAdd(4, PayloadSum(v.elems, 1))
      [] v.kind = "map" ->
            IF SatAdd(v.pad, Len(v.elems) \div 2) < 0 THEN -1
            ELSE SatAdd(4, PayloadSum(v.elems, 1))
      [] v.kind \in {"tuple", "cql_tuple", "cql_udt"} -> PayloadSum(v.elems, 1)
      [] v.kind \in {"cql_list", "cql_set", "cql_map"} -> SatAdd(4, PayloadSum(v.elems, 1))
      [] v.kind = "cql_scalar" -> PayloadSize(v.elems[1])
      [] v.kind = "duration" ->
            LET VintSize(x) == IF -64 <= x /\ x < 64 THEN 1 ELSE 2
            IN  VintSize(v.data[1]) + VintSize(v.data[2]) + VintSize(v.data[3])
      [] v.kind = "empty" -> 0

\* C16: serialize fails with ValueTooBig for a value whose payload length, or
\* whose element count, or the payload length of which it is part, does not fit a
\* signed 32-bit integer (for CqlDecimal: the varint bytes + 4); and a length or
\* count it writes is the true one, never truncated or wrapped.
C16_NoWrappedLength ==
    Serialized1 =>
        LET w == Appended
            leaf == Innermost(operands.val)
        IN  /\ (PayloadSize(operands.val) = -1 => ~outcome.ok)
            /\ (outcome.ok /\ PayloadSize(operands.val) >= 0 =>
                   IsLength(w) /\ GetI32(w) = PayloadSize(operands.val))
            /\ (outcome.ok /\ leaf.kind = "list" =>
                   SubSeq(w, 5, 8) = PutI32(leaf.pad + Len(leaf.elems)))
            /\ (outcome.ok /\ leaf.kind = "map" =>
                   SubSeq(w, 5, 8) = PutI32(leaf.pad + Len(leaf.elems) \div 2))

\* values at and just over the limit were serialized: a decimal of i32::MAX - 3
\* varint bytes, a byte slice of 2^31 bytes, a list of 2^31 elements
C16_Witness ==
    /\ Serialized1 /\ ~outcome.ok
    /\ PayloadSize(operands.val) = -1
    /\ operands.val \in {VDecimal(I32Max - 3, <<>>, 2), HugeBlob, VListN(I32Max, <<VInt(1)>>)}

\* C18: a CqlVarint is written as its raw constructor bytes, not normalized, behind
\* a length equal to their number; so varints that compare equal can be written
\* differently: [0x00, 0x01] as 00 00 00 02 00 01 and [0x01] as 00 00 00 01 01.
C18_VarintWrittenRaw ==
    (Serialized1 /\ outcome.ok /\ operands.val.kind = "varint") =>
        LET v == operands.val
        IN  /\ Appended = PutI32(v.pad + Len(v.data)) \o Run(v.pad) \o v.data
            /\ (v.data = <<0, 1>> => /\ Appended = <<0, 0, 0, 2, 0, 1>>
                                     /\ VarintEq(v.data, <<1>>)
                                     /\ Appended # Serialize(VVarint(0, <<1>>), <<>>).buf)
            /\ (v = VVarint(0, <<1>>) => Appended = <<0, 0, 0, 1, 1>>)

\* the varint [0x00, 0x01] was serialized
C18_Witness ==
    /\ Serialized1 /\ outcome.ok
    /\ operands.val = VVarint(0, <<0, 1>>)


\* C23: a successful serialize into a buffer that already holds bytes leaves
\* those bytes as they were and appends exactly the bytes the same value writes
\* into an empty buffer, where it succeeds too: the back-patched length does not
\* depend on where in the buffer the value starts.
C23_PositionIndependent ==
    (Serialized1 /\ outcome.ok) =>
        /\ SubSeq(outcome.buf, 1, Len(operands.buf)) = operands.buf
        /\ Serialize(operands.val, <<>>).ok
        /\ Appended = Serialize(operands.val, <<>>).buf

\* a map, a list of a tuple, and a duration were serialized after earlier contents
C23_Witness ==
    /\ Serialized1 /\ outcome.ok
    /\ operands.buf # <<>>
    /\ operands.val \in {VMap(0, <<VInt(1), VNull>>), VCqlTuple(Fields),
                         VCqlList(<<VCqlUdt(<<97>>, <<VNull>>), VCqlTuple(Fields)>>),
                         VDuration(1, -2, 100)}

\* the encodings of the elements, one after the other
RECURSIVE EncodingsFrom(_, _)
EncodingsFrom(elems, i) ==
    IF i > Len(elems) THEN <<>>
    ELSE Serialize(elems[i], <<>>).buf \o EncodingsFrom(elems, i + 1)

\* C24: the length at the start of a map, list, set, tuple or user-defined type
\* is the number of bytes written after it; a map writes its i32 pair count and
\* then key and value encodings in turn, a list or set its i32 element count and
\* then the element encodings, a tuple or user-defined type no count, only the
\* element encodings in order.
C24_CompositeEncodings ==
    (Serialized1 /\ outcome.ok) =>
        LET w == Appended
            leaf == Innermost(operands.val)
            Counted(count) == PutI32(SizeFrom(w, 5)) \o PutI32(count) \o EncodingsFrom(leaf.elems, 1)
        IN  /\ (leaf.kind \in {"list", "cql_list", "cql_set"} =>
                   w = Counted(leaf.pad + Len(leaf.elems)))
            /\ (leaf.kind \in {"map", "cql_map"} =>
                   w = Counted(leaf.pad + Len(leaf.elems) \div 2))
            /\ (leaf.kind \in {"tuple", "cql_tuple", "cql_udt"} =>
                   w = PutI32(SizeFrom(w, 5)) \o EncodingsFrom(leaf.elems, 1))
            /\ (leaf = VTuple(<<VInt(1), VNull>>) =>
                   w = <<0, 0, 0, 12, 0, 0, 0, 4, 0, 0, 0, 1, 255, 255, 255, 255>>)
            /\ (leaf = VMap(0, <<VInt(1), VNull>>) =>
                   w = <<0, 0, 0, 16, 0, 0, 0, 1, 0, 0, 0, 4, 0, 0, 0, 1, 255, 255, 255, 255>>)

\* a tuple, a user-defined type and a map were serialized
C24_Witness ==
    /\ Serialized1 /\ outcome.ok
    /\ operands.val \in {VTuple(<<VInt(1), VNull>>), VCqlUdt(<<97, 98, 99>>, Fields),
                         VMap(0, <<VInt(1), VNull>>)}

IsCqlValue(v) ==
    v.kind \in {"cql_scalar", "cql_list", "cql_set", "cql_map", "cql_tuple", "cql_udt", "empty"}

\* the concrete value a CqlValue variant wraps
Concrete(v) ==
    CASE v.kind = "cql_scalar" -> v.elems[1]
      [] v.kind \in {"cql_list", "cql_set"} -> VList(v.elems)
      [] v.kind = "cql_map" -> VMap(0, v.elems)
      [] v.kind \in {"cql_tuple", "cql_udt"} -> VTuple(v.elems)

\* C27: a CqlValue other than Vector serializes exactly as the concrete value it
\* wraps, failing where that fails: List and Set as a list, Map as a map, Tuple
\* and UserDefinedType as a tuple of the field values in declared order, the
\* field names not written; Empty writes length 0 and nothing else.
C27_CqlValueAsConcrete ==
    (Serialized1 /\ IsCqlValue(operands.val)) =>
        IF operands.val.kind = "empty"
        THEN outcome.ok /\ Appended = <<0, 0, 0, 0>>
        ELSE LET Same(r) == outcome.ok = r.ok /\ outcome.buf = r.buf
             IN  Same(Serialize(Concrete(operands.val), operands.buf))

\* a user-defined type of three named fields was serialized
C27_Witness ==
    /\ Serialized1 /\ outcome.ok
    /\ operands.val = VCqlUdt(<<97, 98, 99>>, Fields)

-----------------------------------------------------------------------------
(* The varint specification: CqlVarint equality and hashing on two varints *)

\* the bytes the digits are made of
DigitBytes == {0, 1, 128, 255}

RECURSIVE DigitsOfLen(_)
DigitsOfLen(n) ==
    IF n = 0 THEN {<<>>}
    ELSE {Append(d, x) : d \in DigitsOfLen(n - 1), x \in DigitBytes}

RECURSIVE DigitsUpTo(_)
DigitsUpTo(n) == IF n = 0 THEN DigitsOfLen(0) ELSE DigitsOfLen(n) \cup DigitsUpTo(n - 1)

\* CqlVarint::from_signed_bytes_be(a), CqlVarint::from_signed_bytes_be(b)
InitVarint ==
    /\ BufIdle /\ BatchIdle /\ FrameIdle
    /\ operands \in {[a |-> x, b |-> y] : x \in DigitsUpTo(MaxDigits), y \in DigitsUpTo(MaxDigits)}
    /\ outcome = [op |-> "none", eq |-> FALSE, bytes |-> <<>>]

\* a.as_normalized_slice()
AsNormalizedSliceCall ==
    /\ outcome' = [op |-> "as_normalized_slice", eq |-> FALSE,
                   bytes |-> AsNormalizedSlice(operands.a)]
    /\ UNCHANGED <<operands, bufvars, batchvars, framevars>>

\* a == b
VarintEqCall ==
    /\ outcome' = [op |-> "eq", eq |-> VarintEq(operands.a, operands.b), bytes |-> <<>>]
    /\ UNCHANGED <<operands, bufvars, batchvars, framevars>>

\* a.hash(state)
VarintHashCall ==
    /\ outcome' = [op |-> "hash", eq |-> FALSE, bytes |-> VarintHash(operands.a)]
    /\ UNCHANGED <<operands, bufvars, batchvars, framevars>>

NextVarint ==
    \/ AsNormalizedSliceCall
    \/ VarintEqCall
    \/ VarintHashCall

SpecVarint == InitVarint /\ [][NextVarint]_vars

-----------------------------------------------------------------------------
(* Claims about CqlVarint, checked under SpecVarint *)

AllZero(b) == \A i \in 1..Len(b) : b[i] = 0

\* the normal form as the claim words it: [0x00] for the empty and the all-zero
\* sequence; otherwise the leading zeros go, but one stays when there was one and the
\* first non-zero byte has its high bit set
NormalForm(b) ==
    IF AllZero(b) THEN <<0>>
    ELSE LET k == CHOOSE i \in 1..Len(b) : b[i] # 0 /\ \A j \in 1..(i - 1) : b[j] = 0
             stripped == SubSeq(b, k, Len(b))
         IN  IF k > 1 /\ b[k] >= 128 THEN <<0>> \o stripped ELSE stripped

\* C17: two varints are equal iff their normal forms are byte-equal, the hash is
\* fed the normal form, normalization is idempotent, and a varint equals (and
\* hashes as) the varint built from its normal form.
C17_NormalizedEquality ==
    /\ (outcome.op = "as_normalized_slice" =>
           /\ outcome.bytes = NormalForm(operands.a)
           /\ AsNormalizedSlice(outcome.bytes) = outcome.bytes
           /\ VarintEq(operands.a, outcome.bytes)
           /\ VarintHash(operands.a) = VarintHash(outcome.bytes))
    /\ (outcome.op = "eq" =>
           /\ outcome.eq = (NormalForm(operands.a) = NormalForm(operands.b))
           /\ (outcome.eq => VarintHash(operands.a) = VarintHash(operands.b)))
    /\ (outcome.op = "hash" => outcome.bytes = NormalForm(operands.a))

\* two varints with different bytes compared equal; one of them keeps a zero in
\* front of a byte with the high bit set
C17_Witness ==
    /\ outcome.op = "eq" /\ outcome.eq
    /\ operands.a = <<0, 0, 128>> /\ operands.b = <<0, 128>>

\* the integer the bytes denote: big-endian two's complement, the first byte
\* carrying the sign, the empty sequence denoting 0
RECURSIVE DenotesFrom(_, _, _)
DenotesFrom(b, i, acc) ==
    IF i > Len(b) THEN acc
    ELSE DenotesFrom(b, i + 1, acc * 256 + b[i])

Denotes(b) ==
    IF b = <<>> THEN 0
    ELSE DenotesFrom(b, 2, IF b[1] >= 128 THEN b[1] - 256 ELSE b[1])

\* C30: two varints that compare equal denote the same integer, and two varints
\* that denote the same non-negative integer compare equal.
C30_EqualitySound ==
    outcome.op = "eq" =>
        /\ outcome.eq => Denotes(operands.a) = Denotes(operands.b)
        /\ (Denotes(operands.a) >= 0 /\ Denotes(operands.a) = Denotes(operands.b))
               => outcome.eq

\* 1 written on three bytes and on one byte compared equal
C30_Witness ==
    /\ outcome.op = "eq" /\ outcome.eq
    /\ operands.a = <<0, 0, 1>> /\ operands.b = <<1>>
    /\ Denotes(operands.a) = 1

-----------------------------------------------------------------------------
(* CqlTimeuuid: a timeuuid is its 16 bytes, bytes[0] of the source being the     *)
(* first entry. A u64 is kept as its 8 big-endian bytes, most significant first. *)

\* msb without masking the version nibble off
Msb_NoMask(bytes) ==
    <<bytes[7], bytes[8], bytes[5], bytes[6], bytes[1], bytes[2], bytes[3], bytes[4]>>

\* CqlTimeuuid::msb
Msb(bytes) ==
    <<bytes[7] % 16, bytes[8], bytes[5], bytes[6], bytes[1], bytes[2], bytes[3], bytes[4]>>

\* CqlTimeuuid::lsb
Lsb(bytes) ==
    <<bytes[9], bytes[10], bytes[11], bytes[12], bytes[13], bytes[14], bytes[15], bytes[16]>>

\* x ^ 0x80 on one byte
Xor80(x) == (x + 128) % 256

\* CqlTimeuuid::lsb_signed
LsbSigned(bytes) == [i \in 1..8 |-> Xor80(Lsb(bytes)[i])]

\* u64::cmp, from the i-th byte on
RECURSIVE U64CmpFrom(_, _, _)
U64CmpFrom(x, y, i) ==
    IF i > 8 THEN "Equal"
    ELSE IF x[i] < y[i] THEN "Less"
    ELSE IF x[i] > y[i] THEN "Greater"
    ELSE U64CmpFrom(x, y, i + 1)

U64Cmp(x, y) == U64CmpFrom(x, y, 1)

\* Ord for CqlTimeuuid
TimeuuidCmp(a, b) ==
    LET res == U64Cmp(Msb(a), Msb(b))
    IN  IF res = "Equal" THEN U64Cmp(LsbSigned(a), LsbSigned(b)) ELSE res

\* equality of the underlying Uuid
TimeuuidEq_RawBytes(a, b) == a = b

\* PartialEq for CqlTimeuuid
TimeuuidEq(a, b) == TimeuuidCmp(a, b) = "Equal"

\* Hash for CqlTimeuuid: what is fed to the hasher, in order
TimeuuidHash(a) == <<LsbSigned(a), Msb(a)>>

-----------------------------------------------------------------------------
(* The timeuuid specification: comparison, equality and hashing of two timeuuids *)

\* the timeuuid with the given bytes 3, 5, 6, 7, 8 and 15, the others 0
UuidOf(b3, b5, b6, b7, b8, b15) ==
    <<0, 0, 0, b3, 0, b5, b6, b7, b8, 0, 0, 0, 0, 0, 0, b15>>

Uuids ==
    { UuidOf(b3, b5, b6, b7, b8, 0) :
        b3 \in {0, 2}, b5 \in {0, 1}, b6 \in {16, 64, 31}, b7 \in {0, 1}, b8 \in {0, 127, 128, 255} }
    \cup { UuidOf(0, 0, 16, 0, 0, b15) : b15 \in {1, 128} }

\* CqlTimeuuid::from_bytes(a), CqlTimeuuid::from_bytes(b)
InitTimeuuid ==
    /\ BufIdle /\ BatchIdle /\ FrameIdle
    /\ operands \in {[a |-> x, b |-> y] : x \in Uuids, y \in Uuids}
    /\ outcome = [op |-> "none", ord |-> "none", eq |-> FALSE, fed |-> <<>>]

\* a.cmp(&b)
TimeuuidCmpCall ==
    /\ outcome' = [op |-> "cmp", ord |-> TimeuuidCmp(operands.a, operands.b), eq |-> FALSE,
                   fed |-> <<>>]
    /\ UNCHANGED <<operands, bufvars, batchvars, framevars>>

\* a == b
TimeuuidEqCall ==
    /\ outcome' = [op |-> "eq", ord |-> "none", eq |-> TimeuuidEq(operands.a, operands.b),
                   fed |-> <<>>]
    /\ UNCHANGED <<operands, bufvars, batchvars, framevars>>

\* a.hash(state)
TimeuuidHashCall ==
    /\ outcome' = [op |-> "hash", ord |-> "none", eq |-> FALSE, fed |-> TimeuuidHash(operands.a)]
    /\ UNCHANGED <<operands, bufvars, batchvars, framevars>>

NextTimeuuid ==
    \/ TimeuuidCmpCall
    \/ TimeuuidEqCall
    \/ TimeuuidHashCall

SpecTimeuuid == InitTimeuuid /\ [][NextTimeuuid]_vars

-----------------------------------------------------------------------------
(* Claims about CqlTimeuuid, checked under SpecTimeuuid *)

\* the order in which the bytes weigh in the comparison
KeyOrder == <<7, 8, 5, 6, 1, 2, 3, 4, 9, 10, 11, 12, 13, 14, 15, 16>>

\* what the k-th place of the comparison holds: the low nibble of byte 6, an
\* unsigned byte of the timestamp, or a byte of the low half read as signed
Key(u, k) ==
    LET x == u[KeyOrder[k]]
    IN  IF k = 1 THEN x % 16
        ELSE IF k >= 9 THEN (IF x >= 128 THEN x - 256 ELSE x)
        ELSE x

\* the comparison as the claim words it: decided at the first place that differs
ClaimedCmp(a, b) ==
    LET diff == {k \in 1..16 : Key(a, k) # Key(b, k)}
    IN  IF diff = {} THEN "Equal"
        ELSE LET k == CHOOSE i \in diff : \A j \in diff : i <= j
             IN  IF Key(a, k) < Key(b, k) THEN "Less" ELSE "Greater"

\* the timeuuid with its version nibble set to v
WithVersion(u, v) == [u EXCEPT ![7] = v * 16 + (u[7] % 16)]

\* C19: cmp is decided by the 60-bit timestamp word (low nibble of byte 6, byte 7,
\* bytes 4-5, bytes 0-3) and, on a tie, by bytes 8-15 with 0x80 xor-ed into each;
\* changing the version nibble of either timeuuid does not change the result.
C19_CmpIgnoresVersion ==
    outcome.op = "cmp" =>
        /\ outcome.ord = ClaimedCmp(operands.a, operands.b)
        /\ \A v \in 0..15, w \in 0..15 :
              TimeuuidCmp(WithVersion(operands.a, v), WithVersion(operands.b, w)) = outcome.ord

\* two timeuuids that differ in the version nibble and in the timestamp were
\* compared, the version nibble pointing the other way
C19_Witness ==
    /\ outcome.op = "cmp" /\ outcome.ord = "Less"
    /\ operands.a[7] = 64 /\ operands.b[7] = 16
    /\ operands.a[8] < operands.b[8]

Flip(ord) == CASE ord = "Less" -> "Greater" [] ord = "Greater" -> "Less" [] OTHER -> ord

\* a and b agree on every bit except possibly the version nibble
SameButVersion(a, b) ==
    /\ \A i \in (1..16) \ {7} : a[i] = b[i]
    /\ a[7] % 16 = b[7] % 16

\* C20: a == b iff cmp(a, b) is Equal iff a and b agree on every bit except
\* possibly the version nibble; equal timeuuids feed the hasher the same
\* (lsb_signed, msb); cmp is antisymmetric up to == and transitive.
C20_EqHashOrdConsistent ==
    LET a == operands.a
        b == operands.b
    IN  /\ (outcome.op = "eq" =>
               /\ outcome.eq = (TimeuuidCmp(a, b) = "Equal")
               /\ outcome.eq = SameButVersion(a, b)
               /\ (outcome.eq => TimeuuidHash(a) = TimeuuidHash(b)))
        /\ (outcome.op = "hash" =>
               /\ outcome.fed = <<LsbSigned(a), Msb(a)>>
               /\ \A c \in Uuids : TimeuuidEq(a, c) => TimeuuidHash(c) = outcome.fed)
        /\ (outcome.op = "cmp" =>
               /\ TimeuuidCmp(b, a) = Flip(outcome.ord)
               /\ (outcome.ord = "Equal") = TimeuuidEq(a, b)
               /\ \A c \in Uuids :
                     (outcome.ord # "Greater" /\ TimeuuidCmp(b, c) # "Greater")
                         => /\ TimeuuidCmp(a, c) # "Greater"
                            /\ (TimeuuidCmp(a, c) = "Equal"
                                   => outcome.ord = "Equal" /\ TimeuuidCmp(b, c) = "Equal"))

\* two timeuuids differing only in the version nibble were found equal
C20_Witness ==
    /\ outcome.op = "eq" /\ outcome.eq
    /\ operands.a # operands.b

-----------------------------------------------------------------------------
(* CqlDecimal: an unscaled CqlVarint and a 32-bit scale *)

\* CqlDecimal::from_signed_be_bytes_and_exponent(bytes, scale)
Decimal(bytes, scale) == [int_val |-> bytes, scale |-> scale]

\* equality on the stored bytes instead of CqlVarint's equality
DecimalEq_RawBytes(a, b) == a.int_val = b.int_val /\ a.scale = b.scale

\* derive(PartialEq) for CqlDecimal: the fields' own equalities, in order
DecimalEq(a, b) == VarintEq(a.int_val, b.int_val) /\ a.scale = b.scale

\* the unscaled values and scales the decimals are made of
DecimalInts ==
    { <<>>, <<0>>, <<1>>, <<0, 1>>, <<10>>, <<0, 10>>, <<100>>, <<128>>, <<0, 128>>,
      <<255>>, <<255, 255>>, <<0, 255>> }

Scales == {-1, 0, 1, 2}

Decimals == {Decimal(d, e) : d \in DecimalInts, e \in Scales}

InitDecimal ==
    /\ BufIdle /\ BatchIdle /\ FrameIdle
    /\ operands \in {[a |-> x, b |-> y] : x \in Decimals, y \in Decimals}
    /\ outcome = [op |-> "none", eq |-> FALSE]

\* a == b
DecimalEqCall ==
    /\ outcome' = [op |-> "eq", eq |-> DecimalEq(operands.a, operands.b)]
    /\ UNCHANGED <<operands, bufvars, batchvars, framevars>>

NextDecimal == DecimalEqCall

SpecDecimal == InitDecimal /\ [][NextDecimal]_vars

-----------------------------------------------------------------------------
(* Claims about CqlDecimal, checked under SpecDecimal *)

\* C21 as stated: two decimals are equal iff their scales are equal and their
\* unscaled byte sequences are equal.
C21_AsStated ==
    outcome.op = "eq" =>
        outcome.eq = (operands.a.scale = operands.b.scale
                      /\ operands.a.int_val = operands.b.int_val)

\* C21 (amended): two decimals are equal iff their scales are equal and their
\* unscaled varints are equal as CqlVarint, that is, have the same normal form;
\* decimals with different scales are never equal, numerically equal or not.
C21_StructuralEquality ==
    outcome.op = "eq" =>
        /\ outcome.eq = (operands.a.scale = operands.b.scale
                         /\ NormalForm(operands.a.int_val) = NormalForm(operands.b.int_val))
        /\ (operands.a.scale # operands.b.scale => ~outcome.eq)

\* 10 with scale 1 and 1 with scale 0, both 1 as numbers, compared unequal
C21_Witness ==
    /\ outcome.op = "eq" /\ ~outcome.eq
    /\ operands.a = Decimal(<<10>>, 1) /\ operands.b = Decimal(<<1>>, 0)

-----------------------------------------------------------------------------
(* Value-list adaptation: ValueList::serialized for every kind of source.        *)
(* A source is a record: kind names the implementer, refs the number of & put    *)
(* in front of it, items its (name, value) entries in the order its iterator     *)
(* yields them (the name unused unless the source is a map), sv the buffer when  *)
(* the source is one.                                                             *)

Source(kind, refs, items, sv) == [kind |-> kind, refs |-> refs, items |-> items, sv |-> sv]

Unnamed(val) == [name |-> Name(0, <<>>), val |-> val]

\* what serialized returns: Err(res), or Ok of a Cow that is Borrowed or Owned
Owned(r) == [res |-> r.res, sv |-> r.sv, borrowed |-> FALSE]
Borrowed(sv) == [res |-> "Ok", sv |-> sv, borrowed |-> TRUE]

RECURSIVE SerializedNamedFrom(_, _, _)

\* the `for (key, val) in self { result.add_named_value(key, val)?; }` loop from entry i on
SerializedNamedFrom(items, i, result) ==
    IF i > Len(items) THEN [res |-> "Ok", sv |-> result]
    ELSE LET Rest(r) == IF r.res # "Ok" THEN [res |-> r.res, sv |-> New]
                        ELSE SerializedNamedFrom(items, i + 1, r.sv)
         IN  Rest(AddNamedValue(result, items[i].name, items[i].val))

\* serialized for a map that appends its values without their keys
MapSerialized_Positional(items) == Serialized([i \in 1..Len(items) |-> items[i].val])

\* ValueList::serialized for HashMap / BTreeMap keyed by String or &str
MapSerialized(items) == SerializedNamedFrom(items, 1, New)

\* serialized for a buffer that builds a new, empty buffer
BufferSerialized_Rebuilt(sv) == Owned([res |-> "Ok", sv |-> New])

\* ValueList::serialized for LegacySerializedValues and Cow<LegacySerializedValues>
BufferSerialized(sv) == Borrowed(sv)

RECURSIVE ValueListSerialized(_)

\* ValueList::serialized by kind of source; &T hands over to T
ValueListSerialized(src) ==
    CASE src.refs > 0 -> ValueListSerialized([src EXCEPT !.refs = src.refs - 1])
      [] src.kind \in {"unit", "array0"} -> Owned([res |-> "Ok", sv |-> New])
      [] src.kind \in {"slice", "vec", "tuple"} ->
             Owned(Serialized([i \in 1..Len(src.items) |-> src.items[i].val]))
      [] src.kind \in {"hash_map", "btree_map"} -> Owned(MapSerialized(src.items))
      [] src.kind \in {"buffer", "cow"} -> BufferSerialized(src.sv)

-----------------------------------------------------------------------------
(* The value-list specification: serialized called on one source, repeatedly *)

\* "", "a", "b" and a key of 65536 bytes
MapKeys == { Name(0, <<>>), Name(0, <<97>>), Name(0, <<98>>), Name(U16Max + 1, <<>>) }

\* str::cmp on the keys' bytes, from the i-th on
RECURSIVE KeyLessFrom(_, _, _)
KeyLessFrom(a, b, i) ==
    IF i > Len(b) THEN FALSE
    ELSE IF i > Len(a) THEN TRUE
    ELSE IF a[i] # b[i] THEN a[i] < b[i]
    ELSE KeyLessFrom(a, b, i + 1)

KeyLess(a, b) == a.pad = 0 /\ b.pad = 0 /\ KeyLessFrom(a.data, b.data, 1)

\* the entries of unnamed values, n of them
RECURSIVE ListsOfLen(_)
ListsOfLen(n) ==
    IF n = 0 THEN {<<>>}
    ELSE {Append(l, Unnamed(v)) : l \in ListsOfLen(n - 1), v \in Values}

\* the entries of a map in the order its iterator yields them: n entries with
\* distinct keys
RECURSIVE EntriesOfLen(_)
EntriesOfLen(n) ==
    IF n = 0 THEN {<<>>}
    ELSE LET more == {Append(e, [name |-> k, val |-> v]) :
                         e \in EntriesOfLen(n - 1), k \in MapKeys, v \in Values}
         IN  {e \in more : \A i \in 1..(n - 1) : e[i].name # e[n].name}

\* a BTreeMap yields its entries in ascending key order
Ascending(e) == \A i \in 1..(Len(e) - 1) : KeyLess(e[i].name, e[i + 1].name)

Lists == UNION {ListsOfLen(n) : n \in 0..MaxItems}
Entries == UNION {EntriesOfLen(n) : n \in 0..MaxItems}

\* the sources that are no buffers
BuiltSources ==
    {Source(k, 0, <<>>, New) : k \in {"unit", "array0"}}
    \cup {Source(k, 0, l, New) : k \in {"slice", "vec"}, l \in Lists}
    \cup {Source("tuple", 0, l, New) : l \in Lists \ {<<>>}}
    \cup {Source("hash_map", 0, e, New) : e \in Entries}
    \cup {Source("btree_map", 0, e, New) : e \in {x \in Entries : Ascending(x)}}

\* the buffers a caller can hold: every buffer serialized has built
BuiltBuffers ==
    {r.sv : r \in {x \in {ValueListSerialized(src) : src \in BuiltSources} : x.res = "Ok"}}

ListSources ==
    LET direct == BuiltSources
                  \cup {Source(k, 0, <<>>, sv) : k \in {"buffer", "cow"}, sv \in BuiltBuffers}
    IN  direct \cup {[src EXCEPT !.refs = 1] : src \in direct}

NoRet == [res |-> "none", sv |-> New, borrowed |-> FALSE]

InitList ==
    /\ BufIdle /\ BatchIdle /\ FrameIdle
    /\ operands \in ListSources
    /\ outcome = [op |-> "none", n |-> 0, ret |-> NoRet, first |-> NoRet]

\* operands.serialized()
SerializedCall ==
    /\ outcome.n < MaxSerialized
    /\ LET Returned(r) ==
               outcome' = [op |-> "serialized", n |-> outcome.n + 1, ret |-> r,
                           first |-> IF outcome.n = 0 THEN r ELSE outcome.first]
       IN  Returned(ValueListSerialized(operands))
    /\ UNCHANGED <<operands, bufvars, batchvars, framevars>>

NextList == SerializedCall

SpecList == InitList /\ [][NextList]_vars

-----------------------------------------------------------------------------
(* Claims about value-list adaptation, checked under SpecList *)

IsMap(src) == src.kind \in {"hash_map", "btree_map"}
IsPositional(src) == src.kind \in {"unit", "array0", "slice", "vec", "tuple"}
Returned == outcome.op = "serialized" /\ outcome.ret.res = "Ok"

\* the buffer holds the source's entries in order, with their names iff named
HoldsEntries(sv, src, named) ==
    /\ SVLen(sv) = Len(src.items)
    /\ sv.serialized_values = WireFrom(src.items, 1, named)

\* C22 as stated: a map always yields a buffer in named mode.
C22_AsStated ==
    (Returned /\ IsMap(operands)) =>
        HasNames(outcome.ret.sv) /\ HoldsEntries(outcome.ret.sv, operands, TRUE)

\* C22 (amended): when serialized() succeeds, a string-keyed map yields a buffer
\* holding the map's (key as name, value) pairs, in named mode unless the map is
\* empty (then the buffer is the new, empty buffer with the flag not set); every
\* other adapter yields a buffer in positional mode with one unnamed element per
\* source value, in source order.
C22_NamedOrPositional ==
    /\ (Returned /\ IsMap(operands)) =>
           /\ HasNames(outcome.ret.sv) = (Len(operands.items) > 0)
           /\ HoldsEntries(outcome.ret.sv, operands, TRUE)
           /\ ~outcome.ret.borrowed
    /\ (Returned /\ IsPositional(operands)) =>
           /\ ~HasNames(outcome.ret.sv)
           /\ HoldsEntries(outcome.ret.sv, operands, FALSE)
           /\ ~outcome.ret.borrowed

\* a map of two entries gave a named buffer of two elements
C22_Witness ==
    /\ Returned /\ operands.kind = "hash_map" /\ Len(operands.items) = 2
    /\ HasNames(outcome.ret.sv) /\ SVLen(outcome.ret.sv) = 2

IsBuffer(src) == src.kind \in {"buffer", "cow"}

\* C26: when the source is a buffer, a Cow of one or a reference to either,
\* serialized() succeeds with a borrowed view of that buffer: the result equals
\* the source in bytes, count and named flag, and every repeated call returns
\* what the first call returned.
C26_BufferBorrowed ==
    (outcome.op = "serialized" /\ IsBuffer(operands)) =>
        /\ outcome.ret.res = "Ok"
        /\ outcome.ret.borrowed
        /\ outcome.ret.sv.serialized_values = operands.sv.serialized_values
        /\ SVLen(outcome.ret.sv) = SVLen(operands.sv)
        /\ HasNames(outcome.ret.sv) = HasNames(operands.sv)
        /\ outcome.ret = outcome.first

\* a reference to a Cow of a named, non-empty buffer was adapted twice
C26_Witness ==
    /\ outcome.op = "serialized" /\ outcome.n = 2
    /\ operands.kind = "cow" /\ operands.refs = 1
    /\ HasNames(operands.sv) /\ SVLen(operands.sv) > 0
    /\ outcome.ret.borrowed

-----------------------------------------------------------------------------
(* CqlTime conversions. An i64 is <<hi, mid, lo>>, standing for                  *)
(* hi * 2^32 + mid * 2^16 + lo with hi a signed 32-bit word; its magnitude is     *)
(* four 16-bit limbs, most significant first.                                    *)

IsNegative(x) == x[1] < 0

\* |x| as limbs, by two's complement negation when x is negative
Magnitude(x) ==
    LET a == x[1] \div 65536
        b == x[1] % 65536
        c0 == IF x[3] > 0 THEN 1 ELSE 0
        c1 == IF x[2] + c0 > 0 THEN 1 ELSE 0
        c2 == IF b + c1 > 0 THEN 1 ELSE 0
    IN  IF ~IsNegative(x) THEN <<a, b, x[2], x[3]>>
        ELSE <<-a - c2, (-(b + c1)) % 65536, (-(x[2] + c0)) % 65536, (-x[3]) % 65536>>

\* bit i of the limbs, bit 0 the most significant of 64
BitOf(limbs, i) == (limbs[(i \div 16) + 1] \div (2 ^ (15 - (i % 16)))) % 2

\* one step of the long division by d < 2^30: the next bit of the dividend
\* shifted into the remainder r, the next bit of the quotient qh * 2^16 + ql
DivStep(acc, d, b) ==
    LET r2 == 2 * acc.r + b
        bit == IF r2 >= d THEN 1 ELSE 0
        ql2 == 2 * acc.ql + bit
    IN  [qh |-> 2 * acc.qh + (ql2 \div 65536), ql |-> ql2 % 65536, r |-> r2 - bit * d]

\* long division of the limbs by d, from bit i on; the remainder is never
\* negative, testing it keeps the accumulator evaluated at every step
RECURSIVE DivFrom(_, _, _, _)
DivFrom(limbs, i, d, acc) ==
    IF i = 64 \/ acc.r < 0 THEN acc
    ELSE DivFrom(limbs, i + 1, d, DivStep(acc, d, BitOf(limbs, i)))

\* self.0 / 1_000_000_000 and self.0 % 1_000_000_000: both truncate toward zero, so
\* they are the quotient and remainder of |self.0| with the sign of self.0
DivRemNanos(x) ==
    LET Signed(d) == [neg |-> IsNegative(x), qh |-> d.qh, ql |-> d.ql, r |-> d.r]
    IN  Signed(DivFrom(Magnitude(x), 0, 1000000000, [qh |-> 0, ql |-> 0, r |-> 0]))

\* q / k and q % k for the quotient q = qh * 2^16 + ql and 0 < k <= 3600
QuotDiv(d, k) == (d.qh \div k) * 65536 + (((d.qh % k) * 65536 + d.ql) \div k)
QuotMod(d, k) == ((d.qh % k) * 65536 + d.ql) % k

Overflow == [ok |-> FALSE, h |-> 0, m |-> 0, s |-> 0, n |-> 0]
TimeOfDay(h, m, s, n) == [ok |-> TRUE, h |-> h, m |-> m, s |-> s, n |-> n]

\* chrono NaiveTime::from_num_seconds_from_midnight_opt(secs, nano) with
\* secs = qh * 2^16 + ql: None unless secs < 86400 and nano < 2_000_000_000, and
\* None for a leap-second nano >= 1_000_000_000 outside the 59th second of a minute
FromNumSecondsFromMidnightOpt(qh, ql, nano) ==
    IF \/ qh > 1
       \/ qh * 65536 + ql >= 86400
       \/ nano >= 2000000000
       \/ (nano >= 1000000000 /\ (qh * 65536 + ql) % 60 # 59)
    THEN Overflow
    ELSE LET secs == qh * 65536 + ql
         IN  TimeOfDay(secs \div 3600, (secs \div 60) % 60, secs % 60, nano)

\* TryInto<chrono::NaiveTime> for CqlTime: secs, then nanos, must each fit a u32
CqlTimeToNaiveTime(x) ==
    LET Convert(d) ==
            IF (d.neg /\ (d.qh # 0 \/ d.ql # 0)) \/ d.qh > 65535 THEN Overflow
            ELSE IF d.neg /\ d.r # 0 THEN Overflow
            ELSE FromNumSecondsFromMidnightOpt(d.qh, d.ql, d.r)
    IN  Convert(DivRemNanos(x))

\* time::Time::from_hms_nano with nanosecond = nhi * 2^16 + nlo: an error unless
\* hour < 24, minute < 60, second < 60 and nanosecond < 1_000_000_000
FromHmsNano(hour, minute, second, nhi, nlo) ==
    IF hour > 23 \/ minute > 59 \/ second > 59 \/ nhi > 15258 \/ (nhi = 15258 /\ nlo > 51711)
    THEN Overflow
    ELSE TimeOfDay(hour, minute, second, nhi * 65536 + nlo)

\* TryInto<time::Time> with the hour narrowed by `as u8` like the other fields
CqlTimeToTime_HourWraps(x) ==
    LET Convert(d) ==
            LET sign == IF d.neg THEN -1 ELSE 1
                h == sign * QuotDiv(d, 3600)
                m == sign * (QuotDiv(d, 60) % 60)
                sec == sign * QuotMod(d, 60)
                n == sign * d.r
            IN  FromHmsNano(h % 256, m % 256, sec % 256, (n \div 65536) % 65536, n % 65536)
    IN  Convert(DivRemNanos(x))

\* TryInto<time::Time> for CqlTime: h must fit a u8; `m as u8`, `s as u8` and
\* `n as u32` keep the low 8 and 32 bits
CqlTimeToTime(x) ==
    LET Convert(d) ==
            LET sign == IF d.neg THEN -1 ELSE 1
                h == sign * QuotDiv(d, 3600)
                m == sign * (QuotDiv(d, 60) % 60)
                sec == sign * QuotMod(d, 60)
                n == sign * d.r
            IN  IF h < 0 \/ h > 255 THEN Overflow
                ELSE FromHmsNano(h, m % 256, sec % 256, (n \div 65536) % 65536, n % 65536)
    IN  Convert(DivRemNanos(x))

\* a chrono NaiveTime: seconds since midnight below 86400 and a fraction in
\* nanoseconds that runs up to 1_999_999_999 within a leap second
NaiveTime(secs, frac) == [secs |-> secs, frac |-> frac]

\* value.signed_duration_since(NaiveTime::MIN).num_nanoseconds(): the i64
\* secs * 1_000_000_000 + frac, with 1_000_000_000 = 15258 * 2^16 + 51712
NumNanoseconds(nt) ==
    LET t == nt.secs * 15258
        v == (nt.secs \div 256) * 51712
        w == (nt.secs % 256) * 51712
        l == (v % 256) * 256 + (w % 65536) + (nt.frac % 65536)
        m == (t % 65536) + ((v \div 256) % 65536) + (w \div 65536) + (nt.frac \div 65536)
                 + (l \div 65536)
    IN  <<(t \div 65536) + (v \div 16777216) + (m \div 65536), m % 65536, l % 65536>>

\* nanos <= 86399999999999 on i64, 86399999999999 being 20116 * 2^32 + 37198 * 2^16 + 65535
AtMostMaxCqlTime(x) == x[1] < 20116 \/ (x[1] = 20116 /\ x[2] <= 37198)

\* TryFrom<chrono::NaiveTime> for CqlTime
NaiveTimeToCqlTime(nt) ==
    LET Checked(nanos) ==
            IF AtMostMaxCqlTime(nanos) THEN [ok |-> TRUE, t |-> nanos]
            ELSE [ok |-> FALSE, t |-> <<0, 0, 0>>]
    IN  Checked(NumNanoseconds(nt))

\* the words the CqlTime values are made of: the limits of i64, the ends of the
\* day, whole hours beyond a u8 and negative times
TimeHis == {-2147483647 - 1, -214577, -4291, -839, -14, -1, 0, 1, 10546, 20116, 20117,
            214576, 1000000000, 2147483647}
TimeMids == {0, 18272, 37198, 37199, 47264, 65535}
TimeLos == {0, 1, 24576, 65535}

CqlTimes == {<<hi, mid, lo>> : hi \in TimeHis, mid \in TimeMids, lo \in TimeLos}

\* the NaiveTimes chrono can hold: a leap-second fraction only in the 59th second
NaiveTimes ==
    {nt \in {NaiveTime(secs, frac) : secs \in {0, 1, 59, 3599, 45296, 86398, 86399},
                                     frac \in {0, 1, 999999999, 1000000000, 1999999999}} :
        nt.frac >= 1000000000 => nt.secs % 60 = 59}

InitTime ==
    /\ BufIdle /\ BatchIdle /\ FrameIdle
    /\ operands \in {[t |-> x, nt |-> y] : x \in CqlTimes, y \in NaiveTimes}
    /\ outcome = [op |-> "none", ret |-> Overflow]

\* NaiveTime::try_from(cql_time)
ToNaiveTimeCall ==
    /\ outcome' = [op |-> "to_naive_time", ret |-> CqlTimeToNaiveTime(operands.t)]
    /\ UNCHANGED <<operands, bufvars, batchvars, framevars>>

\* time::Time::try_from(cql_time)
ToTimeCall ==
    /\ outcome' = [op |-> "to_time", ret |-> CqlTimeToTime(operands.t)]
    /\ UNCHANGED <<operands, bufvars, batchvars, framevars>>

\* CqlTime::try_from(naive_time)
FromNaiveTimeCall ==
    /\ outcome' = [op |-> "from_naive_time", ret |-> NaiveTimeToCqlTime(operands.nt)]
    /\ UNCHANGED <<operands, bufvars, batchvars, framevars>>

NextTime ==
    \/ ToNaiveTimeCall
    \/ ToTimeCall
    \/ FromNaiveTimeCall

SpecTime == InitTime /\ [][NextTime]_vars

-----------------------------------------------------------------------------
(* Claims about the CqlTime conversions, checked under SpecTime *)

\* 0 <= n <= 86_399_999_999_999 for the i64 n
InDay(x) == x[1] >= 0 /\ (x[1] < 20116 \/ (x[1] = 20116 /\ x[2] <= 37198))

\* C28: converting a CqlTime of n nanoseconds to a chrono NaiveTime or a time
\* Time succeeds iff 0 <= n <= 86_399_999_999_999 and is ValueOverflow otherwise,
\* a success being the time of day n nanoseconds after midnight; converting a
\* NaiveTime to CqlTime is ValueOverflow exactly within a leap second, when the
\* nanoseconds since midnight exceed 86_399_999_999_999.
C28_TimeInRangeOrOverflow ==
    /\ outcome.op \in {"to_naive_time", "to_time"} =>
           /\ outcome.ret.ok = InDay(operands.t)
           /\ outcome.ret.ok =>
                  /\ outcome.ret.h < 24 /\ outcome.ret.m < 60 /\ outcome.ret.s < 60
                  /\ outcome.ret.n < 1000000000
                  /\ NumNanoseconds(NaiveTime(outcome.ret.h * 3600 + outcome.ret.m * 60
                                                  + outcome.ret.s, outcome.ret.n))
                         = operands.t
    /\ outcome.op = "from_naive_time" =>
           outcome.ret.ok = ~(operands.nt.secs = 86399 /\ operands.nt.frac >= 1000000000)

\* 256 hours refused by the conversion to time::Time, whose hour `as u8` is 0
C28_Witness ==
    /\ outcome.op = "to_time" /\ ~outcome.ret.ok
    /\ operands.t = <<214576, 47264, 0>>

====
